---- MODULE Spec2Model ----
(***************************************************************************)
(* fumadocs-registry: the catalog scan (scanComponents), the closure of    *)
(* internal references (collectInternalDeps) and the manifest generators   *)
(* (generateRegistryJson, generateComponentJsonFiles, generateBundleJson,  *)
(* writeRegistryFiles) as run in sequence by buildRegistry.                *)
(*                                                                         *)
(* A string is a sequence of one-character strings, so that startsWith,    *)
(* includes, replace and the template literals of the source are computed  *)
(* and not assumed.                                                        *)
(***************************************************************************)
EXTENDS Naturals, Integers, Sequences, FiniteSets, TLC

(* ------------------------------------------------------------------ *)
(* Bounds of the model                                                 *)
(* ------------------------------------------------------------------ *)

\* longest directory listing of one scanned subdirectory
MaxFiles ==
  2

\* deepest recursion of collectInternalDeps the run-time stack allows
MaxDepth ==
  6

(* ------------------------------------------------------------------ *)
(* JavaScript strings, Sets and Maps                                   *)
(* ------------------------------------------------------------------ *)

Range(s) ==
  { s[i] : i \in 1..Len(s) }

NoDup(s) ==
  \A i, j \in 1..Len(s) : s[i] = s[j] => i = j

\* String.prototype.startsWith
StartsWith(s, p) ==
  Len(p) <= Len(s) /\ SubSeq(s, 1, Len(p)) = p

\* String.prototype.endsWith
EndsWith(s, p) ==
  Len(p) <= Len(s) /\ SubSeq(s, Len(s) - Len(p) + 1, Len(s)) = p

\* String.prototype.indexOf, 1-based; 0 when p does not occur in s
IndexOf(s, p) ==
  LET hits == { i \in 1..(Len(s) + 1) :
                  i + Len(p) - 1 <= Len(s) /\ SubSeq(s, i, i + Len(p) - 1) = p }
  IN  IF hits = {} THEN 0 ELSE CHOOSE i \in hits : \A j \in hits : i <= j

\* String.prototype.includes
Includes(s, p) ==
  IndexOf(s, p) # 0

\* String.prototype.replace with a string pattern: the first occurrence only
ReplaceFirst(s, p, r) ==
  LET i == IndexOf(s, p)
  IN  IF i = 0 THEN s
      ELSE SubSeq(s, 1, i - 1) \o r \o SubSeq(s, i + Len(p), Len(s))

\* Set.prototype.add on an insertion-ordered Set
SetAdd(set, x) ==
  IF x \in Range(set) THEN set ELSE Append(set, x)

\* adds every element of a sequence, in order
RECURSIVE SetAddAll(_, _)
SetAddAll(set, xs) ==
  IF xs = <<>> THEN set ELSE SetAddAll(SetAdd(set, Head(xs)), Tail(xs))

\* Map.prototype.set on an insertion-ordered Map of <<key, value>> pairs:
\* an existing key keeps its position and takes the new value
MapSet(map, k, v) ==
  IF \E i \in 1..Len(map) : map[i][1] = k
    THEN [ i \in 1..Len(map) |-> IF map[i][1] = k THEN <<k, v>> ELSE map[i] ]
    ELSE Append(map, <<k, v>>)

MapHas(map, k) ==
  \E i \in 1..Len(map) : map[i][1] = k

MapGet(map, k) ==
  map[CHOOSE i \in 1..Len(map) : map[i][1] = k][2]

\* an optional field of an item: absent, or present with a value
Absent ==
  <<>>

Present(v) ==
  <<v>>

\* the letters, lower case and upper case in the same order
LowerChars ==
  <<"a", "b", "c", "d", "e", "f", "g", "h", "i", "j", "k", "l", "m", "n",
      "o", "p", "q", "r", "s", "t", "u", "v", "w", "x", "y", "z">>

UpperChars ==
  <<"A", "B", "C", "D", "E", "F", "G", "H", "I", "J", "K", "L", "M", "N",
      "O", "P", "Q", "R", "S", "T", "U", "V", "W", "X", "Y", "Z">>

\* String.prototype.toUpperCase of one character
ToUpperCase(c) ==
  IF c \in Range(LowerChars)
    THEN UpperChars[CHOOSE i \in 1..Len(LowerChars) : LowerChars[i] = c]
    ELSE c

\* String.prototype.toLowerCase
ToLowerCase(s) ==
  [ i \in 1..Len(s) |->
      IF s[i] \in Range(UpperChars)
        THEN LowerChars[CHOOSE k \in 1..Len(UpperChars) : UpperChars[k] = s[i]]
        ELSE s[i] ]

\* word.charAt(0).toUpperCase() + word.slice(1)
Capitalize(word) ==
  IF word = <<>> THEN word ELSE <<ToUpperCase(Head(word))>> \o Tail(word)

\* String.prototype.split with a separator of one or more characters
RECURSIVE Split(_, _)
Split(s, sep) ==
  LET i == IndexOf(s, sep)
  IN  IF i = 0 THEN <<s>>
      ELSE <<SubSeq(s, 1, i - 1)>> \o Split(SubSeq(s, i + Len(sep), Len(s)),
          sep)

\* Array.prototype.join
RECURSIVE Join(_, _)
Join(parts, sep) ==
  IF parts = <<>> THEN <<>>
  ELSE IF Len(parts) = 1 THEN parts[1]
  ELSE parts[1] \o sep \o Join(Tail(parts), sep)

\* words.map((word) => word.charAt(0).toUpperCase() + word.slice(1))
CapitalizeAll(words) ==
  [ i \in 1..Len(words) |-> Capitalize(words[i]) ]

(* ------------------------------------------------------------------ *)
(* String constants of the source                                      *)
(* ------------------------------------------------------------------ *)

Slash ==
  <<"/">>

DotJson ==
  <<".", "j", "s", "o", "n">>

DotTs ==
  <<".", "t", "s">>

DotTsx ==
  <<".", "t", "s", "x">>

DotJs ==
  <<".", "j", "s">>

DotJsx ==
  <<".", "j", "s", "x">>

IndexTs ==
  <<"i", "n", "d", "e", "x">> \o DotTs

IndexTsx ==
  <<"i", "n", "d", "e", "x">> \o DotTsx

RegistryUi ==
  <<"r", "e", "g", "i", "s", "t", "r", "y", ":", "u", "i">>

RegistryLib ==
  <<"r", "e", "g", "i", "s", "t", "r", "y", ":", "l", "i", "b">>

RegistryBlock ==
  <<"r", "e", "g", "i", "s", "t", "r", "y", ":", "b", "l", "o", "c", "k">>

LibPrefix ==
  <<"l", "i", "b", "/">>

UiPrefix ==
  <<"c", "o", "m", "p", "o", "n", "e", "n", "t", "s", "/", "u", "i", "/">>

RegistryJsonFile ==
  <<"r", "e", "g", "i", "s", "t", "r", "y">> \o DotJson

AllSuffix ==
  <<"-", "a", "l", "l">>

(* ------------------------------------------------------------------ *)
(* Resolved options                                                    *)
(* ------------------------------------------------------------------ *)

UiDir ==
  [name |-> <<"u", "i">>, type |-> "ui"]

LibDir ==
  [name |-> <<"l", "i", "b">>, type |-> "lib"]

\* resolveOptions: the defaults of componentsDir, componentsDirs, registry.name
ComponentsDir ==
  <<"s", "r", "c", "/", "r", "e", "g", "i", "s", "t", "r", "y">>

ComponentsDirs ==
  <<UiDir, LibDir>>

RegistryName ==
  <<"c", "o", "m", "p", "o", "n", "e", "n", "t", "s">>

\* options.baseUrl, mandatory and without default
BaseUrls ==
  { <<"u", "/", "r">> }

(* ------------------------------------------------------------------ *)
(* The scanned source tree (input)                                     *)
(* ------------------------------------------------------------------ *)

\* what extractDependencies finds in a source text: the text of a file is
\* modelled by the classified imports it holds
Imports(npm, shadcn, internal) ==
  [dependencies |-> npm, registryDependencies |-> shadcn,
   internalDependencies |-> internal, exports |-> <<>>]

\* a source text that also exports symbols: what extractExports finds in it
Text(npm, shadcn, internal, exports) ==
  [dependencies |-> npm, registryDependencies |-> shadcn,
   internalDependencies |-> internal, exports |-> exports]

\* a directory entry: its name, what fs.stat says it is, whether it can be
\* read, and its text
Entry(file, kind, text) ==
  [file |-> file, kind |-> kind, text |-> text]

NoImports ==
  Imports(<<>>, <<>>, <<>>)

\* an external-catalog name that holds the base URL, but not as its prefix
\* (a shadcnComponents override naming a mirror of another registry)
MirrorRef ==
  <<"m", "/", "u", "/", "r", "/", "k">>

\* entries a ui subdirectory may list
UiEntries ==
  { Entry(<<"a">> \o DotTsx, "file",
          Imports(<< <<"p">> >>, << <<"k">>, <<"a">> >>, << <<"b">>, <<"c">> >>)),
    Entry(<<"a">> \o DotTsx, "file",
          Imports(<<>>, << MirrorRef >>, << <<"c">>, <<"z">>, <<"b">> >>)),
    Entry(<<"b">> \o DotTsx, "file",
          Imports(<< <<"q">> >>, << <<"k">> >>, << <<"a">> >>)),
    Entry(<<"a">> \o DotTs, "file",
          Imports(<<>>, << <<"j">> >>, << <<"a">> >>)),
    Entry(IndexTsx, "file", NoImports),
    Entry(<<"e">> \o DotTsx, "unreadable", NoImports) }

\* entries a lib subdirectory may list
LibEntries ==
  { Entry(<<"b">> \o DotTs, "file",
          Imports(<< <<"q">> >>, <<>>, <<>>)),
    Entry(<<"c">> \o DotTs, "file",
          Imports(<< <<"q">> >>, << <<"j">> >>, <<>>)),
    Entry(<<"a">> \o DotTs, "file",
          Imports(<< <<"p">> >>, << <<"j">> >>, <<>>)),
    Entry(<<"d">> \o DotTs, "dir", NoImports),
    Entry(<<"r", ".", "m", "d">>, "file", NoImports) }

\* the listings fs.readdir may return: no file name twice
Listings(entries) ==
  { l \in UNION { [1..n -> entries] : n \in 0..MaxFiles } :
      \A i, j \in 1..Len(l) : l[i].file = l[j].file => i = j }

\* a subdirectory that does not exist
Missing ==
  [exists |-> FALSE, files |-> <<>>]

Dir(listing) ==
  [exists |-> TRUE, files |-> listing]

VARIABLES
  baseUrl,        \* options.baseUrl
  tree,           \* the source tree: one directory per entry of ComponentsDirs
  pc,             \* the step buildRegistry is at
  dirIdx,         \* scanComponents: the subdirectory being scanned
  fileIdx,        \* scanComponents: the next entry of its listing
  components,     \* the catalog (ComponentInfo[])
  registry,       \* generateRegistryJson: items of registry.json
  compIdx,        \* generateComponentJsonFiles: the component being bundled
  collected,      \* collectInternalDeps: the Set of collected names
  stack,          \* collectInternalDeps: the active calls, innermost last
  call,           \* collectInternalDeps: the call about to be entered
  componentFiles, \* generateComponentJsonFiles: Map file name -> item
  bundle,         \* generateBundleJson: the aggregate item
  disk,           \* the output directory: Map file name -> document written
  docs,           \* the documentation tree: one directory per entry of DocsDirs
  docDirIdx,      \* scanMdxFiles: the documentation directory being scanned
  docFileIdx,     \* scanMdxFiles: the next entry of its listing
  previewIdx,     \* generateAllDemoBlocks: the next preview of components[compIdx]
  blocks,         \* generateAllDemoBlocks: Map file name -> demo item
  run,            \* how many times buildRegistry has been started
  firstDisk,      \* the output directory as the first run left it
  arg,            \* the arguments of a function called on its own, or
                  \* the command line and the configuration files
  ret             \* what the function returned, or the exit status

\* scanMdxFiles
docVars ==
  <<docs, docDirIdx, docFileIdx>>

\* generateAllDemoBlocks
blockVars ==
  <<previewIdx, blocks>>

rerunVars ==
  <<run, firstDisk>>

callVars ==
  <<arg, ret>>

\* what the scan and the registry generators leave alone
outerVars ==
  <<docVars, blockVars, rerunVars, callVars>>

vars ==
  <<baseUrl, tree, pc, dirIdx, fileIdx, components, registry, compIdx,
    collected, stack, call, componentFiles, bundle, disk, outerVars>>

(* ------------------------------------------------------------------ *)
(* Helpers of the generators                                           *)
(* ------------------------------------------------------------------ *)

\* file.replace(/\.(tsx?|jsx?)$/, "")
StripSourceExt(file) ==
  IF EndsWith(file, DotTsx) \/ EndsWith(file, DotJsx)
    THEN SubSeq(file, 1, Len(file) - 4)
  ELSE IF EndsWith(file, DotTs) \/ EndsWith(file, DotJs)
    THEN SubSeq(file, 1, Len(file) - 3)
  ELSE file

\* path.relative(cwd, path.join(componentsDir, subDir.name, file))
SourcePath(subDir, file) ==
  ComponentsDir \o Slash \o subDir.name \o Slash \o file

\* fs.readFile of a path of the source tree
ReadFile(path) ==
  LET places == UNION { { <<d, i>> : i \in 1..Len(tree[d].files) } :
                          d \in 1..Len(ComponentsDirs) }
      at == CHOOSE at \in places :
              SourcePath(ComponentsDirs[at[1]], tree[at[1]].files[at[2]].file) = path
  IN  tree[at[1]].files[at[2]].text

\* extractDependencies: the classified imports of the file's text
extractDependencies(entry) ==
  entry.text

\* extractExports: the exported symbols of the file's text
extractExports(entry) ==
  [exports |-> entry.text.exports]

\* kebabToTitle
kebabToTitle(str) ==
  Join(CapitalizeAll(Split(str, <<"-">>)), <<" ">>)

\* the references written without the .json suffix
internalToRegistryDepsBare(internalDeps, base) ==
  [ i \in 1..Len(internalDeps) |-> base \o Slash \o internalDeps[i] ]

\* internalToRegistryDeps: `${baseUrl}/${dep}.json` for every internal name
internalToRegistryDeps(internalDeps, base) ==
  [ i \in 1..Len(internalDeps) |-> base \o Slash \o internalDeps[i] \o DotJson ]

\* the ComponentInfo scanComponents pushes for one file
ComponentInfoOf(subDir, entry) ==
  LET componentName == StripSourceExt(entry.file)
      deps == extractDependencies(entry)
  IN  [ name |-> componentName,
        title |-> kebabToTitle(componentName),
        description |-> <<>>,
        exports |-> extractExports(entry).exports,
        previews |-> <<>>,
        type |-> IF subDir.type = "lib" THEN RegistryLib ELSE RegistryUi,
        sourcePath |-> SourcePath(subDir, entry.file),
        targetPath |-> IF subDir.type = "lib"
                         THEN LibPrefix \o componentName \o DotTs
                         ELSE UiPrefix \o componentName \o DotTsx,
        folder |-> subDir.name,
        dependencies |-> deps.dependencies,
        registryDependencies |->
          deps.registryDependencies
            \o internalToRegistryDeps(deps.internalDependencies, baseUrl) ]

\* a RegistryFile that is installed among the ui components whatever the
\* type of the component
RegistryFileOfUiTarget(component) ==
  [ path |-> component.sourcePath,
    content |-> ReadFile(component.sourcePath),
    type |-> component.type,
    target |-> UiPrefix \o component.name \o DotTsx ]

\* the RegistryFile of a component: its own source and install target
RegistryFileOf(component) ==
  [ path |-> component.sourcePath,
    content |-> ReadFile(component.sourcePath),
    type |-> component.type,
    target |-> component.targetPath ]

\* allComponents.find((c) => c.name === name): index of the first, 0 if none
FindComponent(all, name) ==
  LET hits == { i \in 1..Len(all) : all[i].name = name }
  IN  IF hits = {} THEN 0 ELSE CHOOSE i \in hits : \A j \in hits : i <= j

\* the name read without stripping the .json suffix
DepNameOfWithSuffix(dep, base) ==
  LET noBase == ReplaceFirst(dep, base, <<>>)
  IN  IF StartsWith(noBase, Slash) THEN Tail(noBase) ELSE noBase

\* the name collectInternalDeps reads out of an internal reference
DepNameOf(dep, base) ==
  LET noBase == ReplaceFirst(dep, base, <<>>)
      noSlash == IF StartsWith(noBase, Slash) THEN Tail(noBase) ELSE noBase
  IN  IF EndsWith(noSlash, DotJson)
        THEN SubSeq(noSlash, 1, Len(noSlash) - Len(DotJson))
        ELSE noSlash

\* whether a reference is one to this registry, as the bundler tests it
IsInternalRef(dep, base) ==
  StartsWith(dep, base)

\* whether generateBundleJson leaves a reference out of the aggregate
IsOwnRef(dep, base) ==
  Includes(dep, base)

(* ------------------------------------------------------------------ *)
(* scanComponents                                                      *)
(* ------------------------------------------------------------------ *)

\* one iteration of the loop over the files of a subdirectory
ScanFile ==
  /\ pc = "scan"
  /\ dirIdx <= Len(ComponentsDirs)
  /\ tree[dirIdx].exists
  /\ fileIdx <= Len(tree[dirIdx].files)
  /\ LET entry == tree[dirIdx].files[fileIdx]
         file == entry.file
     IN  IF file = IndexTs \/ file = IndexTsx
           THEN /\ fileIdx' = fileIdx + 1
                /\ UNCHANGED <<dirIdx, components>>
         ELSE IF ~EndsWith(file, DotTsx) /\ ~EndsWith(file, DotTs)
           THEN /\ fileIdx' = fileIdx + 1
                /\ UNCHANGED <<dirIdx, components>>
         ELSE IF entry.kind = "dir"
           THEN /\ fileIdx' = fileIdx + 1
                /\ UNCHANGED <<dirIdx, components>>
         ELSE IF entry.kind = "unreadable"
           \* extractExports throws: the catch around the directory's loop
           \* ends the scan of this subdirectory
           THEN /\ dirIdx' = dirIdx + 1
                /\ fileIdx' = 1
                /\ UNCHANGED components
         ELSE /\ components' =
                   Append(components, ComponentInfoOf(ComponentsDirs[dirIdx], entry))
              /\ fileIdx' = fileIdx + 1
              /\ UNCHANGED dirIdx
  /\ UNCHANGED <<baseUrl, tree, pc, registry, compIdx, collected, stack, call,
                 componentFiles, bundle, disk>>
  /\ UNCHANGED outerVars

\* fs.readdir throws for a subdirectory that does not exist: caught
ScanMissingDir ==
  /\ pc = "scan"
  /\ dirIdx <= Len(ComponentsDirs)
  /\ ~tree[dirIdx].exists
  /\ dirIdx' = dirIdx + 1
  /\ fileIdx' = 1
  /\ UNCHANGED <<baseUrl, tree, pc, components, registry, compIdx, collected,
                 stack, call, componentFiles, bundle, disk>>
  /\ UNCHANGED outerVars

\* the listing is exhausted: on to the next subdirectory
ScanNextDir ==
  /\ pc = "scan"
  /\ dirIdx <= Len(ComponentsDirs)
  /\ tree[dirIdx].exists
  /\ fileIdx > Len(tree[dirIdx].files)
  /\ dirIdx' = dirIdx + 1
  /\ fileIdx' = 1
  /\ UNCHANGED <<baseUrl, tree, pc, components, registry, compIdx, collected,
                 stack, call, componentFiles, bundle, disk>>
  /\ UNCHANGED outerVars

\* scanComponents returns and the registry is generated at once, without
\* scanMdxFiles
ScanDoneThenRegistry ==
  /\ pc = "scan"
  /\ dirIdx > Len(ComponentsDirs)
  /\ pc' = "registry"
  /\ UNCHANGED <<baseUrl, tree, dirIdx, fileIdx, components, registry,
                 compIdx, collected, stack, call, componentFiles, bundle, disk>>
  /\ UNCHANGED outerVars

\* scanComponents returns the catalog: scanMdxFiles runs next
ScanDone ==
  /\ pc = "scan"
  /\ dirIdx > Len(ComponentsDirs)
  /\ pc' = "mdx"
  /\ UNCHANGED <<baseUrl, tree, dirIdx, fileIdx, components, registry,
                 compIdx, collected, stack, call, componentFiles, bundle, disk>>
  /\ UNCHANGED outerVars

(* ------------------------------------------------------------------ *)
(* generateRegistryJson                                                *)
(* ------------------------------------------------------------------ *)

\* a dependency list is set on an item only when it is not empty
IfNotEmpty(list) ==
  IF Len(list) > 0 THEN Present(list) ELSE Absent

\* the item of registry.json built with the files of the whole catalog
RegistryItemOfCatalog(component) ==
  [ name |-> component.name,
    type |-> component.type,
    files |-> [ k \in 1..Len(components) |-> RegistryFileOf(components[k]) ],
    dependencies |-> component.dependencies,
    registryDependencies |-> component.registryDependencies ]

\* the item of registry.json for one component: its own single file
RegistryItemOf(component) ==
  [ name |-> component.name,
    type |-> component.type,
    files |-> << RegistryFileOf(component) >>,
    dependencies |-> IfNotEmpty(component.dependencies),
    registryDependencies |-> IfNotEmpty(component.registryDependencies) ]

RegistryItems(all) ==
  [ i \in 1..Len(all) |-> RegistryItemOf(all[i]) ]

GenerateRegistryJson ==
  /\ pc = "registry"
  /\ registry' = RegistryItems(components)
  /\ pc' = "component"
  /\ compIdx' = 1
  /\ UNCHANGED <<baseUrl, tree, dirIdx, fileIdx, components, collected, stack,
                 call, componentFiles, bundle, disk>>
  /\ UNCHANGED outerVars

(* ------------------------------------------------------------------ *)
(* collectInternalDeps                                                 *)
(* ------------------------------------------------------------------ *)

\* collectInternalDeps without its visited-set guard
ReturnsEarlyUnguarded(componentName, allComponents, coll) ==
  FindComponent(allComponents, componentName) = 0

\* the two early returns of collectInternalDeps: the name is already
\* collected, or it names no component
ReturnsEarly(componentName, allComponents, coll) ==
  \/ componentName \in Range(coll)
  \/ FindComponent(allComponents, componentName) = 0

\* the loop of collectInternalDeps without its recursive call
CallForNothing(dep, base) ==
  <<>>

\* the recursive call a reference makes: none unless it starts with baseUrl
CallFor(dep, base) ==
  IF IsInternalRef(dep, base) THEN << DepNameOf(dep, base) >> ELSE <<>>

\* generateComponentJsonFiles starts the closure of the next component
ComponentStart ==
  /\ pc = "component"
  /\ compIdx <= Len(components)
  /\ collected' = <<>>
  /\ stack' = <<>>
  /\ call' = << components[compIdx].name >>
  /\ pc' = "collect"
  /\ UNCHANGED <<baseUrl, tree, dirIdx, fileIdx, components, registry,
                 compIdx, componentFiles, bundle, disk>>
  /\ UNCHANGED outerVars

\* entry of collectInternalDeps(componentName, ...)
CollectEnter ==
  /\ pc = "collect"
  /\ call # <<>>
  /\ Len(stack) < MaxDepth
  /\ LET componentName == call[1]
     IN  IF ReturnsEarly(componentName, components, collected)
           THEN UNCHANGED <<collected, stack>>
           ELSE /\ collected' = SetAdd(collected, componentName)
                /\ stack' = Append(stack,
                     [comp |-> FindComponent(components, componentName), next |-> 1])
  /\ call' = <<>>
  /\ UNCHANGED <<baseUrl, tree, pc, dirIdx, fileIdx, components, registry,
                 compIdx, componentFiles, bundle, disk>>
  /\ UNCHANGED outerVars

\* one iteration of the loop over component.registryDependencies
CollectLoop ==
  /\ pc = "collect"
  /\ call = <<>>
  /\ stack # <<>>
  /\ LET top == stack[Len(stack)]
         deps == components[top.comp].registryDependencies
     IN  /\ top.next <= Len(deps)
         /\ stack' = [stack EXCEPT ![Len(stack)].next = top.next + 1]
         /\ call' = CallFor(deps[top.next], baseUrl)
  /\ UNCHANGED <<baseUrl, tree, pc, dirIdx, fileIdx, components, registry,
                 compIdx, collected, componentFiles, bundle, disk>>
  /\ UNCHANGED outerVars

\* the loop is over: the call returns
CollectReturn ==
  /\ pc = "collect"
  /\ call = <<>>
  /\ stack # <<>>
  /\ LET top == stack[Len(stack)]
     IN  top.next > Len(components[top.comp].registryDependencies)
  /\ stack' = SubSeq(stack, 1, Len(stack) - 1)
  /\ UNCHANGED <<baseUrl, tree, pc, dirIdx, fileIdx, components, registry,
                 compIdx, collected, call, componentFiles, bundle, disk>>
  /\ UNCHANGED outerVars

(* ------------------------------------------------------------------ *)
(* generateComponentJsonFiles                                          *)
(* ------------------------------------------------------------------ *)

\* the components the names of internalDeps resolve to, names without
\* component skipped
ResolvedDeps(all, internalDeps) ==
  LET found == SelectSeq(internalDeps, LAMBDA n : FindComponent(all, n) # 0)
  IN  [ i \in 1..Len(found) |-> all[FindComponent(all, found[i])] ]

\* registryFiles: one file per resolved name, in the order of the Set
BundledFiles(deps) ==
  [ i \in 1..Len(deps) |-> RegistryFileOf(deps[i]) ]

\* allNpmDeps
RECURSIVE AllNpmDeps(_)
AllNpmDeps(deps) ==
  IF deps = <<>> THEN <<>>
  ELSE SetAddAll(AllNpmDeps(SubSeq(deps, 1, Len(deps) - 1)),
                 deps[Len(deps)].dependencies)

\* the references of one component, the internal ones not left out
ExternalRefsUnfiltered(refs, base) ==
  refs

\* the references of one component kept as registryDependencies
ExternalRefs(refs, base) ==
  SelectSeq(refs, LAMBDA r : ~IsInternalRef(r, base))

\* externalRegistryDeps
RECURSIVE ExternalRegistryDeps(_, _)
ExternalRegistryDeps(deps, base) ==
  IF deps = <<>> THEN <<>>
  ELSE SetAddAll(ExternalRegistryDeps(SubSeq(deps, 1, Len(deps) - 1), base),
                 ExternalRefs(deps[Len(deps)].registryDependencies, base))

\* the item of <name>.json: the component with its bundled closure
ComponentItemOf(component, all, internalDeps, base) ==
  LET deps == ResolvedDeps(all, internalDeps)
  IN  [ name |-> component.name,
        type |-> component.type,
        files |-> BundledFiles(deps),
        dependencies |-> IfNotEmpty(AllNpmDeps(deps)),
        registryDependencies |-> IfNotEmpty(ExternalRegistryDeps(deps, base)) ]

\* `${component.name}.json`
JsonFileName(name) ==
  name \o DotJson

\* the closure is complete: build the item and files.set it
ComponentBuild ==
  /\ pc = "collect"
  /\ call = <<>>
  /\ stack = <<>>
  /\ componentFiles' =
       MapSet(componentFiles, JsonFileName(components[compIdx].name),
              ComponentItemOf(components[compIdx], components, collected, baseUrl))
  /\ compIdx' = compIdx + 1
  /\ pc' = "component"
  /\ UNCHANGED <<baseUrl, tree, dirIdx, fileIdx, components, registry,
                 collected, stack, call, bundle, disk>>
  /\ UNCHANGED outerVars

\* generateComponentJsonFiles returns the Map
ComponentsDone ==
  /\ pc = "component"
  /\ compIdx > Len(components)
  /\ pc' = "bundle"
  /\ UNCHANGED <<baseUrl, tree, dirIdx, fileIdx, components, registry,
                 compIdx, collected, stack, call, componentFiles, bundle, disk>>
  /\ UNCHANGED outerVars

(* ------------------------------------------------------------------ *)
(* generateBundleJson                                                  *)
(* ------------------------------------------------------------------ *)

\* components.filter(type is registry:ui or registry:lib)
BundleComponents(all) ==
  SelectSeq(all, LAMBDA c : c.type = RegistryUi \/ c.type = RegistryLib)

\* the references of one component kept by the aggregate
AggregateRefs(refs, base) ==
  SelectSeq(refs, LAMBDA r : ~IsOwnRef(r, base))

\* allRegistryDeps
RECURSIVE AllRegistryDeps(_, _)
AllRegistryDeps(deps, base) ==
  IF deps = <<>> THEN <<>>
  ELSE SetAddAll(AllRegistryDeps(SubSeq(deps, 1, Len(deps) - 1), base),
                 AggregateRefs(deps[Len(deps)].registryDependencies, base))

\* the aggregate item <registry-name>-all
BundleItemOf(all, base) ==
  LET bundleComponents == BundleComponents(all)
  IN  [ name |-> RegistryName \o AllSuffix,
        type |-> RegistryBlock,
        dependencies |-> AllNpmDeps(bundleComponents),
        registryDependencies |-> AllRegistryDeps(bundleComponents, base),
        files |-> BundledFiles(bundleComponents) ]

GenerateBundleJson ==
  /\ pc = "bundle"
  /\ bundle' = Present(BundleItemOf(components, baseUrl))
  /\ pc' = "write"
  /\ UNCHANGED <<baseUrl, tree, dirIdx, fileIdx, components, registry,
                 compIdx, collected, stack, call, componentFiles, disk>>
  /\ UNCHANGED outerVars

(* ------------------------------------------------------------------ *)
(* writeRegistryFiles                                                  *)
(* ------------------------------------------------------------------ *)

\* fs.writeFile that would add a document instead of replacing the one of
\* the same name
WriteAllAppending(files, entries) ==
  files \o entries

\* fs.writeFile of every entry of a Map, in its order
RECURSIVE WriteAll(_, _)
WriteAll(files, entries) ==
  IF entries = <<>> THEN files
  ELSE WriteAll(MapSet(files, Head(entries)[1], Head(entries)[2]), Tail(entries))

WriteRegistryFiles ==
  /\ pc = "write"
  /\ disk' =
       MapSet(
         WriteAll(MapSet(disk, RegistryJsonFile, [name |-> RegistryName, items |-> registry]),
                  componentFiles),
         JsonFileName(RegistryName \o AllSuffix), bundle[1])
  \* generateAllDemoBlocks runs next, from the first component
  /\ pc' = "blocks"
  /\ compIdx' = 1
  /\ previewIdx' = 1
  /\ UNCHANGED <<baseUrl, tree, dirIdx, fileIdx, components, registry,
                 collected, stack, call, componentFiles, bundle, docVars,
                 blocks, rerunVars, callVars>>

(* ------------------------------------------------------------------ *)
(* Vocabulary of the properties                                        *)
(* ------------------------------------------------------------------ *)

\* the serialized internal reference to a descriptor name
InternalRefTo(name) ==
  baseUrl \o Slash \o name \o DotJson

Names(all) ==
  { all[i].name : i \in 1..Len(all) }

\* descriptor i holds the internal reference to name n
RefersToName(all, i, n) ==
  InternalRefTo(n) \in Range(all[i].registryDependencies)

\* the names the resolver reaches from a set of names in one step: a name
\* stands for the first descriptor that carries it
StepNames(all, ns) ==
  ns \cup { n \in Names(all) :
              \E m \in ns : RefersToName(all, FindComponent(all, m), n) }

RECURSIVE GrowNames(_, _)
GrowNames(all, ns) ==
  IF StepNames(all, ns) = ns THEN ns ELSE GrowNames(all, StepNames(all, ns))

\* the least set of descriptor names that holds root and is closed under
\* internal references
ReachedNames(all, root) ==
  IF root \in Names(all) THEN GrowNames(all, {root}) ELSE {}

\* a closure computation has returned to generateComponentJsonFiles
ClosureComplete ==
  pc = "collect" /\ call = <<>> /\ stack = <<>>

\* the work collectInternalDeps has left: strictly smaller after every step
RefCount(all, i) ==
  Len(all[i].registryDependencies)

RECURSIVE SumOver(_, _)
SumOver(f, dom) ==
  IF dom = {} THEN 0
  ELSE LET x == CHOOSE x \in dom : TRUE IN f[x] + SumOver(f, dom \ {x})

WorkLeft ==
  LET open == { n \in Names(components) : n \notin Range(collected) }
      ofName == [ n \in open |-> 2 * RefCount(components, FindComponent(components, n)) + 4 ]
      ofFrame == [ d \in 1..Len(stack) |->
                     2 * (RefCount(components, stack[d].comp) + 1 - stack[d].next) + 1 ]
  IN  SumOver(ofName, open) + SumOver(ofFrame, 1..Len(stack))
        + (IF call # <<>> THEN 1 ELSE 0)

\* C1: collectInternalDeps terminates on every catalog, cyclic or not (the
\* recursion is never deeper than the catalog is long, so never out of stack,
\* and every step leaves strictly less work), and the closure it returns
\* holds each name reached from the root exactly once.
C1_ClosureTerminates ==
  /\ [](pc = "collect" => Len(stack) <= Len(components) /\ Len(stack) < MaxDepth)
  /\ [][pc = "collect" /\ pc' = "collect" => WorkLeft' < WorkLeft]_vars
  /\ [](ClosureComplete =>
          /\ NoDup(collected)
          /\ Range(collected) = ReachedNames(components, components[compIdx].name))

\* two descriptors that reference each other, the closure of one computed
C1_Witness ==
  /\ ClosureComplete
  /\ \E k \in 1..Len(components) :
       /\ k # compIdx
       /\ components[k].name # components[compIdx].name
       /\ RefersToName(components, compIdx, components[k].name)
       /\ RefersToName(components, k, components[compIdx].name)
       /\ {components[compIdx].name, components[k].name} \subseteq Range(collected)

\* descriptor i holds the internal reference to descriptor k
Refers(all, i, k) ==
  RefersToName(all, i, all[k].name)

RECURSIVE GrowDescs(_, _)
GrowDescs(all, ks) ==
  LET more == ks \cup { k \in 1..Len(all) : \E j \in ks : Refers(all, j, k) }
  IN  IF more = ks THEN ks ELSE GrowDescs(all, more)

\* the descriptors transitively reachable from descriptor i through internal
\* references, i included
ReachedDescs(all, i) ==
  GrowDescs(all, {i})

\* generateComponentJsonFiles has returned
ManifestsDone ==
  pc \in {"bundle", "write", "blocks", "writeBlocks", "done"}

\* the per-component manifest <name>.json of descriptor i
ManifestOf(i) ==
  MapGet(componentFiles, JsonFileName(components[i].name))

PathsOf(files) ==
  { files[f].path : f \in 1..Len(files) }

SourcePaths(all, ks) ==
  { all[k].sourcePath : k \in ks }

\* the names of a catalog are pairwise distinct
UniqueNames(all) ==
  \A i, j \in 1..Len(all) : all[i].name = all[j].name => i = j

\* C2: the files of the manifest of every descriptor r are exactly one file
\* per descriptor reachable from r through internal references, r included.
C2_FilesAreClosure ==
  ManifestsDone =>
    \A i \in 1..Len(components) :
      /\ PathsOf(ManifestOf(i).files) = SourcePaths(components, ReachedDescs(components, i))
      /\ Len(ManifestOf(i).files) = Cardinality(ReachedDescs(components, i))

\* the registryDependencies of an item, empty when the field is absent
RegDepsOf(item) ==
  IF item.registryDependencies = Absent THEN <<>> ELSE item.registryDependencies[1]

\* the descriptors whose source an item embeds as a file
EmbeddedDescs(all, item) ==
  { k \in 1..Len(all) : all[k].sourcePath \in PathsOf(item.files) }

EmbeddedNames(all, item) ==
  { all[k].name : k \in EmbeddedDescs(all, item) }

\* a reference into this registry: it starts with the base URL
PointsIntoRegistry(ref) ==
  StartsWith(ref, baseUrl)

\* the name an internal reference <baseUrl>/<name>.json carries
RefName(ref) ==
  SubSeq(ref, Len(baseUrl) + Len(Slash) + 1, Len(ref) - Len(DotJson))

\* a reference is covered by an item: its descriptor is embedded, or it is
\* listed in registryDependencies
Covered(all, item, ref) ==
  IF PointsIntoRegistry(ref)
    THEN RefName(ref) \in EmbeddedNames(all, item)
    ELSE ref \in Range(RegDepsOf(item))

RefsOf(all, ks) ==
  UNION { Range(all[k].registryDependencies) : k \in ks }

\* C5: the registryDependencies of r's manifest are exactly the references
\* of the descriptors of r's closure that do not point into this registry,
\* each once; none starts with the base URL.
C5_RegistryDepsAreExternalRefs ==
  ManifestsDone =>
    \A i \in 1..Len(components) :
      /\ Range(RegDepsOf(ManifestOf(i))) =
           { ref \in RefsOf(components, ReachedDescs(components, i)) :
               ~PointsIntoRegistry(ref) }
      /\ NoDup(RegDepsOf(ManifestOf(i)))
      /\ \A ref \in Range(RegDepsOf(ManifestOf(i))) : ~StartsWith(ref, baseUrl)

\* depth-first pre-order from descriptor k, following each reference list in
\* its own order; seen holds the descriptors visited so far
RECURSIVE PreOrder(_, _, _)
RECURSIVE PreOrderRefs(_, _, _)
PreOrder(all, k, seen) ==
  IF k \in Range(seen) THEN seen
  ELSE PreOrderRefs(all, all[k].registryDependencies, Append(seen, k))

PreOrderRefs(all, refs, seen) ==
  IF refs = <<>> THEN seen
  ELSE LET ref == Head(refs)
           to == IF PointsIntoRegistry(ref) THEN FindComponent(all, RefName(ref)) ELSE 0
       IN  PreOrderRefs(all, Tail(refs),
                        IF to = 0 THEN seen ELSE PreOrder(all, to, seen))

\* C6: the files of every per-component manifest are in visitation order,
\* the root's own file first, then the other closure members in depth-first
\* pre-order.
C6_FilesInVisitOrder ==
  ManifestsDone =>
    \A i \in 1..Len(components) :
      LET order == PreOrder(components, i, <<>>)
          files == ManifestOf(i).files
      IN  /\ Len(files) = Len(order)
          /\ files[1].path = components[i].sourcePath
          /\ \A f \in 1..Len(files) : files[f].path = components[order[f]].sourcePath

\* descriptor i holds an internal reference that names no descriptor
HoldsUnresolvedRef(all, i) ==
  \E ref \in Range(all[i].registryDependencies) :
    PointsIntoRegistry(ref) /\ RefName(ref) \notin Names(all)

\* C7: an internal reference that names no descriptor is dropped: every
\* descriptor still gets a manifest, and the closure of a root that holds
\* such a reference is exactly the descriptors reachable through its
\* resolvable references.
C7_UnresolvedRefDropped ==
  /\ ManifestsDone =>
       \A i \in 1..Len(components) :
         MapHas(componentFiles, JsonFileName(components[i].name))
  /\ (ClosureComplete /\ HoldsUnresolvedRef(components, compIdx)) =>
       Range(collected) =
         { components[k].name : k \in ReachedDescs(components, compIdx) }

\* C8: no two descriptors of a scanned catalog have the same name, and
\* generateComponentJsonFiles returns one manifest per descriptor.
C8_NamesUnique ==
  /\ UniqueNames(components)
  /\ ManifestsDone => Len(componentFiles) = Len(components)

\* generateRegistryJson has returned
RegistryDone ==
  pc \notin {"scan", "mdx", "registry"}

\* C9: registry.json has one item per descriptor, in catalog order, and the
\* files of each item are one file: the descriptor's own source with its own
\* install target.
C9_RegistryOwnFiles ==
  RegistryDone =>
    /\ Len(registry) = Len(components)
    /\ \A i \in 1..Len(components) :
         /\ registry[i].name = components[i].name
         /\ Len(registry[i].files) = 1
         /\ registry[i].files[1].path = components[i].sourcePath
         /\ registry[i].files[1].target = components[i].targetPath
         /\ registry[i].files[1].content = ReadFile(components[i].sourcePath)

\* a registry index of a catalog in which a descriptor has a closure larger
\* than itself
C9_Witness ==
  /\ RegistryDone
  /\ Len(registry) >= 2
  /\ \E i \in 1..Len(components) : Cardinality(ReachedDescs(components, i)) > 1

\* C10: the aggregate manifest holds one file per descriptor (its own file),
\* its dependencies are the duplicate-free union of all external packages,
\* and its registryDependencies the duplicate-free union of all references
\* except those that point into this registry's base URL.
C10_AggregateUnion ==
  bundle # Absent =>
    LET item == bundle[1]
        every == 1..Len(components)
    IN  /\ Len(item.files) = Len(components)
        /\ \A i \in every : item.files[i].path = components[i].sourcePath
        /\ Range(item.dependencies) = UNION { Range(components[i].dependencies) : i \in every }
        /\ NoDup(item.dependencies)
        /\ Range(item.registryDependencies) =
             { ref \in RefsOf(components, every) : ~PointsIntoRegistry(ref) }
        /\ NoDup(item.registryDependencies)

(* ------------------------------------------------------------------ *)
(* The documentation tree (input) and scanMdxFiles                     *)
(* ------------------------------------------------------------------ *)

\* longest listing of a documentation directory
MaxDocs ==
  2

DotMdx ==
  <<".", "m", "d", "x">>

\* resolveOptions: the default of docsDirs
DocsDirs ==
  << <<"c", "o", "n", "t", "e", "n", "t", "/", "d", "o", "c", "s", "/", "c",
      "o", "m", "p", "o", "n", "e", "n", "t", "s">> >>

\* a <ComponentPreview ...> tag of a document: its component and example
\* attributes (either may be missing), the text up to the closing tag, and
\* whether there is a closing tag
Tag(component, example, code, closed) ==
  [component |-> component, example |-> example, code |-> code,
      closed |-> closed]

\* a document: the description line of its frontmatter, if any, and its tags
Mdx(description, tags) ==
  [description |-> description, tags |-> tags]

NoMdx ==
  Mdx(Absent, <<>>)

\* entries a documentation directory may list
DocEntries ==
  { Entry(<<"a", ".", "m", "d", "x">>, "file",
          Mdx(Present(<<"'", "d", "'">>),
              << Tag(Present(<<"a">>), Present(<<"x">>), <<" ", "<", "A",
                  "/", ">", " ">>, TRUE),
                 Tag(Present(<<"a">>), Present(<<"y">>), <<"<", "A", ">",
                     "<", "B", "u", "t", "t", "o", "n", "/", ">", "<", "/",
                     "A", ">">>, TRUE) >>)),
    Entry(<<"a", ".", "m", "d", "x">>, "file",
          Mdx(Absent,
              << Tag(Present(<<"a">>), Present(<<"x">>), <<"<", "A", "/",
                  ">">>, TRUE),
                 Tag(Present(<<"b">>), Present(<<"y">>), <<"<", "B", "/",
                     ">">>, TRUE),
                 Tag(Present(<<"a">>), Present(<<"x">>), <<"<", "A", ">",
                     "<", "B", "/", ">", "<", "/", "A", ">">>, TRUE),
                 Tag(Present(<<"a">>), Present(<<"w">>), <<"<", "A", "/",
                     ">">>, FALSE) >>)),
    Entry(<<"b", ".", "m", "d", "x">>, "file",
          Mdx(Present(<<"d">>),
              << Tag(Present(<<"b">>), Absent, <<"<", "B", "/", ">">>, TRUE),
                 Tag(Present(<<"b">>), Present(<<"y">>), <<" ">>, TRUE),
                 Tag(Present(<<"b">>), Present(<<"x">>), <<"<", "B", "/",
                     ">">>, TRUE) >>)),
    Entry(<<"z", ".", "m", "d", "x">>, "file",
          Mdx(Present(<<"d">>), << Tag(Present(<<"z">>), Present(<<"x">>),
              <<"<", "A", "/", ">">>, TRUE) >>)),
    Entry(<<"n", ".", "m", "d">>, "file", NoMdx),
    Entry(<<"e", ".", "m", "d", "x">>, "unreadable", NoMdx) }

\* the listings fs.readdir may return for a documentation directory
DocListings ==
  { l \in UNION { [1..n -> DocEntries] : n \in 0..MaxDocs } :
      \A i, j \in 1..Len(l) : l[i].file = l[j].file => i = j }

WhiteSpace ==
  {" ", "\n", "\t"}

\* String.prototype.trim
RECURSIVE Trim(_)
Trim(s) ==
  IF s = <<>> THEN s
  ELSE IF Head(s) \in WhiteSpace THEN Trim(Tail(s))
  ELSE IF s[Len(s)] \in WhiteSpace THEN Trim(SubSeq(s, 1, Len(s) - 1))
  ELSE s

Quotes ==
  {"\"", "'"}

\* replace(/^["']|["']$/g, ""): a quote at the start and one at the end
Unquote(s) ==
  LET from == IF s # <<>> /\ Head(s) \in Quotes THEN 2 ELSE 1
      to == IF Len(s) >= from /\ s[Len(s)] \in Quotes THEN Len(s) - 1 ELSE Len(s)
  IN  SubSeq(s, from, to)

\* the description scanMdxFiles leaves on a component
DescriptionOf(component, mdx) ==
  IF mdx.description = Absent
    THEN component.description
    ELSE Unquote(Trim(mdx.description[1]))

\* whether the loop over the tags pushes a preview for a tag
IsPreview(tag, componentName) ==
  /\ tag.component # Absent
  /\ tag.component[1] = componentName
  /\ tag.example # Absent
  /\ tag.closed
  /\ Trim(tag.code) # <<>>

\* the previews scanMdxFiles pushes for one document
PreviewsOf(componentName, filePath, tags) ==
  LET kept == SelectSeq(tags, LAMBDA t : IsPreview(t, componentName))
  IN  [ i \in 1..Len(kept) |->
          [ component |-> componentName,
            example |-> kept[i].example[1],
            code |-> Trim(kept[i].code),
            sourcePath |-> filePath ] ]

\* one iteration of the loop over the files of a documentation directory
ScanMdxFile ==
  /\ pc = "mdx"
  /\ docDirIdx <= Len(DocsDirs)
  /\ docs[docDirIdx].exists
  /\ docFileIdx <= Len(docs[docDirIdx].files)
  /\ LET entry == docs[docDirIdx].files[docFileIdx]
         file == entry.file
         componentName == ReplaceFirst(file, DotMdx, <<>>)
         k == FindComponent(components, componentName)
     IN  IF ~EndsWith(file, DotMdx)
           THEN /\ docFileIdx' = docFileIdx + 1
                /\ UNCHANGED <<docDirIdx, components>>
         ELSE IF entry.kind = "unreadable"
           \* fs.readFile throws: the catch around the directory's loop ends
           \* the scan of this directory
           THEN /\ docDirIdx' = docDirIdx + 1
                /\ docFileIdx' = 1
                /\ UNCHANGED components
         ELSE IF k = 0
           THEN /\ docFileIdx' = docFileIdx + 1
                /\ UNCHANGED <<docDirIdx, components>>
         ELSE /\ components' =
                   [components EXCEPT
                      ![k].description =
                         DescriptionOf(components[k], entry.text),
                      ![k].previews =
                         @ \o PreviewsOf(componentName,
                                         DocsDirs[docDirIdx] \o Slash \o file,
                                         entry.text.tags)]
              /\ docFileIdx' = docFileIdx + 1
              /\ UNCHANGED docDirIdx
  /\ UNCHANGED <<baseUrl, tree, pc, dirIdx, fileIdx, registry, compIdx,
                 collected, stack, call, componentFiles, bundle, disk, docs,
                 blockVars, rerunVars, callVars>>

\* fs.readdir throws for a documentation directory that does not exist
ScanMdxMissingDir ==
  /\ pc = "mdx"
  /\ docDirIdx <= Len(DocsDirs)
  /\ ~docs[docDirIdx].exists
  /\ docDirIdx' = docDirIdx + 1
  /\ docFileIdx' = 1
  /\ UNCHANGED <<baseUrl, tree, pc, dirIdx, fileIdx, components, registry,
                 compIdx, collected, stack, call, componentFiles, bundle,
                 disk, docs, blockVars, rerunVars, callVars>>

\* the listing is exhausted: on to the next documentation directory
ScanMdxNextDir ==
  /\ pc = "mdx"
  /\ docDirIdx <= Len(DocsDirs)
  /\ docs[docDirIdx].exists
  /\ docFileIdx > Len(docs[docDirIdx].files)
  /\ docDirIdx' = docDirIdx + 1
  /\ docFileIdx' = 1
  /\ UNCHANGED <<baseUrl, tree, pc, dirIdx, fileIdx, components, registry,
                 compIdx, collected, stack, call, componentFiles, bundle,
                 disk, docs, blockVars, rerunVars, callVars>>

\* scanMdxFiles returns: the generators of the registry run next
ScanMdxDone ==
  /\ pc = "mdx"
  /\ docDirIdx > Len(DocsDirs)
  /\ pc' = "registry"
  /\ UNCHANGED <<baseUrl, tree, dirIdx, fileIdx, components, registry,
                 compIdx, collected, stack, call, componentFiles, bundle,
                 disk, docVars, blockVars, rerunVars, callVars>>

(* ------------------------------------------------------------------ *)
(* generateDemoPage, generateDemoBlock, generateAllDemoBlocks          *)
(* ------------------------------------------------------------------ *)

\* DEFAULT_SHADCN_COMPONENTS, as the entries of the object in their order
DefaultShadcnComponents ==
  << <<<<"b", "u", "t", "t", "o", "n">>, <<"b", "u", "t", "t", "o", "n">>>>,
     <<<<"b", "a", "d", "g", "e">>, <<"b", "a", "d", "g", "e">>>>,
     <<<<"i", "n", "p", "u", "t">>, <<"i", "n", "p", "u", "t">>>>,
     <<<<"l", "a", "b", "e", "l">>, <<"l", "a", "b", "e", "l">>>>,
     <<<<"s", "e", "l", "e", "c", "t">>, <<"s", "e", "l", "e", "c", "t">>>>,
     <<<<"p", "r", "o", "g", "r", "e", "s", "s">>, <<"p", "r", "o", "g", "r",
         "e", "s", "s">>>>,
     <<<<"c", "a", "r", "d">>, <<"c", "a", "r", "d">>>>,
     <<<<"d", "i", "a", "l", "o", "g">>, <<"d", "i", "a", "l", "o", "g">>>>,
     <<<<"p", "o", "p", "o", "v", "e", "r">>, <<"p", "o", "p", "o", "v", "e",
         "r">>>>,
     <<<<"t", "o", "o", "l", "t", "i", "p">>, <<"t", "o", "o", "l", "t", "i",
         "p">>>>,
     <<<<"a", "v", "a", "t", "a", "r">>, <<"a", "v", "a", "t", "a", "r">>>>,
     <<<<"c", "h", "e", "c", "k", "b", "o", "x">>, <<"c", "h", "e", "c", "k",
         "b", "o", "x">>>>,
     <<<<"s", "w", "i", "t", "c", "h">>, <<"s", "w", "i", "t", "c", "h">>>>,
     <<<<"t", "a", "b", "s">>, <<"t", "a", "b", "s">>>> >>

\* SHADCN_IMPORTS of generate-blocks
ShadcnImports ==
  << <<<<"L", "a", "b", "e", "l">>, <<"l", "a", "b", "e", "l">>>>, <<<<"B",
      "u", "t", "t", "o", "n">>, <<"b", "u", "t", "t", "o", "n">>>>, <<<<"I",
      "n", "p", "u", "t">>, <<"i", "n", "p", "u", "t">>>>,
     <<<<"B", "a", "d", "g", "e">>, <<"b", "a", "d", "g", "e">>>>, <<<<"P",
         "r", "o", "g", "r", "e", "s", "s">>, <<"p", "r", "o", "g", "r", "e",
         "s", "s">>>> >>

CommonComponents ==
  << <<"B", "u", "t", "t", "o", "n">>, <<"B", "a", "d", "g", "e">>, <<"I",
      "n", "p", "u", "t">>, <<"L", "a", "b", "e", "l">>, <<"P", "r", "o",
      "g", "r", "e", "s", "s">> >>

UiAlias ==
  <<"@", "/", "c", "o", "m", "p", "o", "n", "e", "n", "t", "s", "/", "u",
      "i", "/">>

\* an import statement of the generated page
ImportOf(names, from) ==
  [names |-> names, from |-> from]

\* kebabToPascal
kebabToPascal(str) ==
  Join(CapitalizeAll(Split(str, <<"-">>)), <<>>)

\* exp is used as a tag in the example: exampleCode.includes(`<${exp}`)
UsesTag(exampleCode, exp) ==
  Includes(exampleCode, <<"<">> \o exp)

\* generateDemoPage: the page as its import statements and the example it
\* wraps
generateDemoPage(component, exampleCode, additionalImports) ==
  LET used == SelectSeq(ShadcnImports, LAMBDA e : UsesTag(exampleCode, e[1]))
      shadcnImports ==
        [ i \in 1..Len(used) |-> ImportOf(<<used[i][1]>>,
            UiAlias \o used[i][2]) ]
      importStatement ==
        IF Len(component.exports) > 0
          THEN ImportOf(component.exports, UiAlias \o component.name)
          ELSE ImportOf(<<kebabToPascal(component.name)>>,
              UiAlias \o component.name)
      usedExports(addComp) ==
        SelectSeq(addComp.exports, LAMBDA exp : UsesTag(exampleCode, exp))
      imported ==
        SelectSeq(additionalImports,
                  LAMBDA c : /\ c.name # component.name
                             /\ Len(c.exports) > 0
                             /\ Len(usedExports(c)) > 0)
      additionalImportStatements ==
        [ i \in 1..Len(imported) |->
            ImportOf(usedExports(imported[i]), UiAlias \o imported[i].name) ]
  IN  [ imports |-> shadcnImports \o <<importStatement>> \o additionalImportStatements,
        body |-> exampleCode ]

RegistryPage ==
  <<"r", "e", "g", "i", "s", "t", "r", "y", ":", "p", "a", "g", "e">>

RegistryComponent ==
  <<"r", "e", "g", "i", "s", "t", "r", "y", ":", "c", "o", "m", "p", "o",
      "n", "e", "n", "t">>

\* detectShadcnInCode: first the entries of the map, then the common names
RECURSIVE DetectEntries(_, _, _)
DetectEntries(code, entries, detected) ==
  IF entries = <<>> THEN detected
  ELSE LET pascalName == Capitalize(Head(entries)[1])
           found == \/ Includes(code, <<"<">> \o pascalName)
                    \/ Includes(code, <<"<">> \o pascalName \o <<"/", ">">>)
       IN  DetectEntries(code, Tail(entries),
                         IF found
                           THEN SetAdd(detected, Head(entries)[2])
                           ELSE detected)

RECURSIVE DetectCommon(_, _, _, _)
DetectCommon(code, comps, shadcnMap, detected) ==
  IF comps = <<>> THEN detected
  ELSE LET lower == ToLowerCase(Head(comps))
           found == /\ Includes(code, <<"<">> \o Head(comps))
                    /\ MapHas(shadcnMap, lower)
                    /\ MapGet(shadcnMap, lower) # <<>>
       IN  DetectCommon(code, Tail(comps), shadcnMap,
                        IF found
                          THEN SetAdd(detected, MapGet(shadcnMap, lower))
                          ELSE detected)

detectShadcnInCode(code, shadcnMap) ==
  DetectCommon(code, CommonComponents, shadcnMap,
               DetectEntries(code, shadcnMap, <<>>))

\* additionalComponents of generateDemoBlock
AdditionalComponents(component, preview, allComponents) ==
  SelectSeq(allComponents,
            LAMBDA c :
              /\ c.name # component.name
              /\ \E d \in 1..Len(component.registryDependencies) :
                   LET dep == component.registryDependencies[d]
                   IN  Includes(dep, c.name) \/ dep = c.name)

\* `registry/${options.registry.name}/${component.name}/`
DemoDir(component) ==
  <<"r", "e", "g", "i", "s", "t", "r", "y",
      "/">> \o RegistryName \o Slash \o component.name \o Slash

\* `${component.name}-demo-${preview.example}`
DemoName(name, example) ==
  name \o <<"-", "d", "e", "m", "o", "-">> \o example

\* "page.tsx"
PageTsx ==
  <<"p", "a", "g", "e", ".", "t", "s", "x">>

\* generateDemoBlock: the item of one preview of a component
generateDemoBlock(component, preview, allComponents, base) ==
  LET additionalComponents ==
        AdditionalComponents(component, preview, allComponents)
      demoContent ==
        generateDemoPage(component, preview.code, additionalComponents)
      files ==
        << [ path |-> DemoDir(component) \o PageTsx,
             content |-> demoContent,
             type |-> RegistryPage,
             target |-> <<"a", "p", "p", "/">> \o component.name \o Slash \o PageTsx ],
           [ path |-> DemoDir(component) \o component.name \o DotTsx,
             content |-> ReadFile(component.sourcePath),
             type |-> RegistryComponent,
             target |-> UiPrefix \o component.name \o DotTsx ] >>
        \o [ i \in 1..Len(additionalComponents) |->
               [ path |-> DemoDir(component) \o additionalComponents[i].name \o DotTsx,
                 content |-> ReadFile(additionalComponents[i].sourcePath),
                 type |-> RegistryComponent,
                 target |-> UiPrefix \o additionalComponents[i].name \o DotTsx ] ]
      shadcnInExample ==
        detectShadcnInCode(preview.code, DefaultShadcnComponents)
      componentRegistryUrl == base \o Slash \o component.name \o DotJson
      allRegistryDeps ==
        SetAddAll(<<>>,
                  <<componentRegistryUrl>>
                    \o SelectSeq(component.registryDependencies,
                                 LAMBDA dep : ~Includes(dep, base))
                    \o shadcnInExample)
  IN  [ name |-> DemoName(component.name, preview.example),
        type |-> RegistryBlock,
        description |-> IF component.description # <<>>
                          THEN component.description
                          ELSE component.title \o <<" ", "d", "e", "m", "o">>,
        dependencies |-> component.dependencies,
        registryDependencies |-> IfNotEmpty(allRegistryDeps),
        files |-> files,
        meta |-> [iframeHeight |-> <<"6", "0", "0", "p", "x">>] ]

\* generateAllDemoBlocks taking each preview off its component (shift) as
\* it turns it into a block
GenerateDemoBlockTakingPreview ==
  /\ pc = "blocks"
  /\ compIdx <= Len(components)
  /\ components[compIdx].previews # <<>>
  /\ LET component == components[compIdx]
         preview == Head(component.previews)
     IN  blocks' =
           MapSet(blocks, JsonFileName(DemoName(component.name, preview.example)),
                  generateDemoBlock(component, preview, components, baseUrl))
  /\ components' = [components EXCEPT ![compIdx].previews = Tail(@)]
  /\ previewIdx' = 1
  /\ UNCHANGED <<baseUrl, tree, pc, dirIdx, fileIdx, registry, compIdx,
                 collected, stack, call, componentFiles, bundle, disk,
                 docVars, rerunVars, callVars>>

\* one iteration of the inner loop of generateAllDemoBlocks
GenerateDemoBlock ==
  /\ pc = "blocks"
  /\ compIdx <= Len(components)
  /\ previewIdx <= Len(components[compIdx].previews)
  /\ LET component == components[compIdx]
         preview == component.previews[previewIdx]
     IN  blocks' =
           MapSet(blocks, JsonFileName(DemoName(component.name, preview.example)),
                  generateDemoBlock(component, preview, components, baseUrl))
  /\ previewIdx' = previewIdx + 1
  /\ UNCHANGED <<baseUrl, tree, pc, dirIdx, fileIdx, components, registry,
                 compIdx, collected, stack, call, componentFiles, bundle,
                 disk, docVars, rerunVars, callVars>>

\* the previews of a component are exhausted: on to the next component
NextComponentBlocks ==
  /\ pc = "blocks"
  /\ compIdx <= Len(components)
  /\ previewIdx > Len(components[compIdx].previews)
  /\ compIdx' = compIdx + 1
  /\ previewIdx' = 1
  /\ UNCHANGED <<baseUrl, tree, pc, dirIdx, fileIdx, components, registry,
                 collected, stack, call, componentFiles, bundle, disk,
                 docVars, blocks, rerunVars, callVars>>

\* generateAllDemoBlocks returns the Map
BlocksDone ==
  /\ pc = "blocks"
  /\ compIdx > Len(components)
  /\ pc' = "writeBlocks"
  /\ UNCHANGED <<baseUrl, tree, dirIdx, fileIdx, components, registry,
                 compIdx, collected, stack, call, componentFiles, bundle,
                 disk, docVars, blockVars, rerunVars, callVars>>

\* writeDemoBlocks
WriteDemoBlocks ==
  /\ pc = "writeBlocks"
  /\ disk' = WriteAll(disk, blocks)
  /\ pc' = "done"
  /\ UNCHANGED <<baseUrl, tree, dirIdx, fileIdx, components, registry,
                 compIdx, collected, stack, call, componentFiles, bundle,
                 docVars, blockVars, rerunVars, callVars>>

\* entries of the ui subdirectory for the catalogs the demo blocks are
\* generated from
DemoEntries ==
  { Entry(<<"a", ".", "t", "s", "x">>, "file", Text(<< <<"p">> >>,
      << <<"k">> >>, << <<"b">> >>, << <<"A">> >>)),
    Entry(<<"b", ".", "t", "s", "x">>, "file",
          Text(<<>>, << MirrorRef >>, <<>>, << <<"B">>, <<"B", "x">> >>)),
    Entry(<<"r", ".", "t", "s", "x">>, "file", Text(<<>>, << <<"b">> >>,
        <<>>, <<>>)) }

\* entries of the lib subdirectory for the same catalogs
DemoLibEntries ==
  { Entry(<<"b">> \o DotTs, "file", Text(<< <<"q">> >>, <<>>, <<>>, << <<"b">> >>)) }

\* buildRegistry starts on a source tree of documented components
DemoInit ==
  /\ baseUrl \in BaseUrls
  /\ \E l \in Listings(DemoEntries),
        lib \in { Dir(m) : m \in Listings(DemoLibEntries) } \cup {Missing} :
       tree = <<Dir(l), lib>>
  /\ \E d \in { Dir(l) : l \in DocListings } \cup {Missing} :
       docs = <<d>>
  /\ pc = "scan"
  /\ dirIdx = 1
  /\ components = <<>>
  /\ fileIdx = 1
  /\ registry = <<>>
  /\ compIdx = 1
  /\ collected = <<>>
  /\ stack = <<>>
  /\ call = <<>>
  /\ componentFiles = <<>>
  /\ bundle = Absent
  /\ disk = <<>>
  /\ docDirIdx = 1
  /\ docFileIdx = 1
  /\ previewIdx = 1
  /\ blocks = <<>>
  /\ run = 1
  /\ firstDisk = <<>>
  /\ arg = <<>>
  /\ ret = <<>>

(* ------------------------------------------------------------------ *)
(* The state buildRegistry starts in                                  *)
(* ------------------------------------------------------------------ *)

Init ==
  /\ baseUrl \in BaseUrls
  /\ \E ui \in { Dir(l) : l \in Listings(UiEntries) } \cup {Missing},
        lib \in { Dir(l) : l \in Listings(LibEntries) } \cup {Missing} :
       tree = <<ui, lib>>
  /\ pc = "scan"
  /\ dirIdx = 1
  /\ fileIdx = 1
  /\ components = <<>>
  /\ registry = <<>>
  /\ compIdx = 1
  /\ collected = <<>>
  /\ stack = <<>>
  /\ call = <<>>
  /\ componentFiles = <<>>
  /\ bundle = Absent
  /\ disk = <<>>
  \* the documentation directory is missing, or listed for a source tree of
  \* at most one file
  /\ \E d \in { Dir(l) : l \in DocListings } \cup {Missing} :
       /\ docs = <<d>>
       /\ d.exists => Len(tree[1].files) + Len(tree[2].files) <= 1
  /\ docDirIdx = 1
  /\ docFileIdx = 1
  /\ previewIdx = 1
  /\ blocks = <<>>
  /\ run = 1
  /\ firstDisk = <<>>
  /\ arg = <<>>
  /\ ret = <<>>

(* ------------------------------------------------------------------ *)
(* buildRegistry                                                       *)
(* ------------------------------------------------------------------ *)

Next ==
  \/ ScanFile
  \/ ScanMissingDir
  \/ ScanNextDir
  \/ ScanDone
  \/ ScanMdxFile
  \/ ScanMdxMissingDir
  \/ ScanMdxNextDir
  \/ ScanMdxDone
  \/ GenerateRegistryJson
  \/ ComponentStart
  \/ CollectEnter
  \/ CollectLoop
  \/ CollectReturn
  \/ ComponentBuild
  \/ ComponentsDone
  \/ GenerateBundleJson
  \/ WriteRegistryFiles
  \/ GenerateDemoBlock
  \/ NextComponentBlocks
  \/ BlocksDone
  \/ WriteDemoBlocks

Spec ==
  Init /\ [][Next]_vars

DemoSpec ==
  DemoInit /\ [][Next]_vars

(* ------------------------------------------------------------------ *)
(* A second run of buildRegistry on the same inputs                    *)
(* ------------------------------------------------------------------ *)

\* the command is run again: the inputs and the output directory are as the
\* first run left them, everything buildRegistry holds in memory is new
Rerun ==
  /\ pc = "done"
  /\ run = 1
  /\ run' = 2
  /\ firstDisk' = disk
  /\ pc' = "scan"
  /\ dirIdx' = 1
  /\ fileIdx' = 1
  /\ components' = <<>>
  /\ registry' = <<>>
  /\ compIdx' = 1
  /\ collected' = <<>>
  /\ stack' = <<>>
  /\ call' = <<>>
  /\ componentFiles' = <<>>
  /\ bundle' = Absent
  /\ docDirIdx' = 1
  /\ docFileIdx' = 1
  /\ previewIdx' = 1
  /\ blocks' = <<>>
  /\ UNCHANGED <<baseUrl, tree, disk, docs, callVars>>

\* the source trees of the two-run check: the lib subdirectory lists at most
\* one entry
RerunInit ==
  /\ Init
  /\ Len(tree[2].files) <= 1

RerunNext ==
  \/ Next
  \/ Rerun

RerunSpec ==
  RerunInit /\ [][RerunNext]_vars

BlocksReady ==
  pc \in {"writeBlocks", "done"}

\* the (descriptor, preview) pairs of the catalog
PreviewPairs ==
  UNION { { <<i, p>> : p \in 1..Len(components[i].previews) } :
            i \in 1..Len(components) }

\* the key under which the block of a pair is stored
BlockKey(i, p) ==
  JsonFileName(DemoName(components[i].name, components[i].previews[p].example))

\* C12: generateAllDemoBlocks returns exactly one manifest per (descriptor,
\* preview) pair, stored as <component>-demo-<example>.json and named
\* <component>-demo-<example>, whose registryDependencies hold
\* <baseUrl>/<component>.json of its root.
C12_OneBlockPerPreview ==
  BlocksReady =>
    /\ Len(blocks) = Cardinality(PreviewPairs)
    /\ \A pair \in PreviewPairs :
         LET i == pair[1]
             p == pair[2]
         IN  /\ MapHas(blocks, BlockKey(i, p))
             /\ MapGet(blocks, BlockKey(i, p)).name =
                  DemoName(components[i].name, components[i].previews[p].example)
             /\ InternalRefTo(components[i].name)
                  \in Range(RegDepsOf(MapGet(blocks, BlockKey(i, p))))

\* generateDemoBlock has just returned the block of preview previewIdx - 1 of
\* component compIdx
BlockBuilt ==
  pc = "blocks" /\ compIdx <= Len(components) /\ previewIdx > 1

BuiltBlock ==
  MapGet(blocks, BlockKey(compIdx, previewIdx - 1))

\* descriptor k's source is one of the files of a demo item
EmbedsSourceOf(item, k) ==
  \E f \in 1..Len(item.files) :
    /\ item.files[f].type = RegistryComponent
    /\ item.files[f].target = UiPrefix \o components[k].name \o DotTsx
    /\ item.files[f].content = ReadFile(components[k].sourcePath)

\* C13: the files of a demo manifest hold the generated page and the root's
\* own source, and never the source of another descriptor the root reaches
\* through an internal reference.
C13_DemoDoesNotEmbedClosure ==
  BlockBuilt =>
    /\ BuiltBlock.files[1].type = RegistryPage
    /\ BuiltBlock.files[2].content = ReadFile(components[compIdx].sourcePath)
    /\ \A k \in ReachedDescs(components, compIdx) :
         components[k].name # components[compIdx].name
           => ~EmbedsSourceOf(BuiltBlock, k)

\* descriptor k is named by the reference list of descriptor i, as an
\* external-catalog name or as an internal reference
NamedBy(i, k) ==
  \/ components[k].name \in Range(components[i].registryDependencies)
  \/ InternalRefTo(components[k].name) \in Range(components[i].registryDependencies)

\* C14: a demo manifest embeds the source of a descriptor other than its
\* root only if the root's reference list names that descriptor and the
\* example code uses one of its exports as a tag.
C14_EmbedsOnlyNamedAndUsed ==
  BlockBuilt =>
    \A k \in 1..Len(components) :
      (components[k].name # components[compIdx].name /\ EmbedsSourceOf(BuiltBlock, k))
        => /\ NamedBy(compIdx, k)
           /\ \E e \in 1..Len(components[k].exports) :
                UsesTag(components[compIdx].previews[previewIdx - 1].code,
                        components[k].exports[e])

(* ------------------------------------------------------------------ *)
(* Functions called on their own: the internal reference and back      *)
(* ------------------------------------------------------------------ *)

\* longest descriptor name, in pieces of NamePieces
MaxName ==
  3

\* the base URLs a configuration may give: with and without a trailing
\* slash, empty, ending in .json, a single letter
RoundTripBases ==
  BaseUrls \cup { <<"u", "/", "r", "/">>,
                  <<>>,
                  <<"a">>,
                  <<"h", ":", "/", "x", ".", "j", "s", "o", "n">> }

NamePieces ==
  { <<"a">>, Slash, DotJson, <<"u", "/", "r">> }

\* the names internalToRegistryDeps may be given
RoundTripNames ==
  { Join(ps, <<>>) : ps \in UNION { [1..n -> NamePieces] : n \in 0..MaxName } }

RoundTripArgs ==
  { [fn |-> "internalToRegistryDeps", base |-> b, names |-> <<n>>] :
      b \in RoundTripBases, n \in RoundTripNames }

\* scanComponents serializes the internal names of a file
Serialize ==
  /\ pc = "call"
  /\ arg.fn = "internalToRegistryDeps"
  /\ ret' = internalToRegistryDeps(arg.names, arg.base)
  /\ pc' = "serialized"
  /\ UNCHANGED <<baseUrl, tree, dirIdx, fileIdx, components, registry,
                 compIdx, collected, stack, call, componentFiles, bundle,
                 disk, docVars, blockVars, rerunVars, arg>>

\* the loop of collectInternalDeps reads the name out of each reference: the
\* recursive call it makes for it, if any
Parse ==
  /\ pc = "serialized"
  /\ ret' = [ i \in 1..Len(ret) |-> CallFor(ret[i], arg.base) ]
  /\ pc' = "parsed"
  /\ UNCHANGED <<baseUrl, tree, dirIdx, fileIdx, components, registry,
                 compIdx, collected, stack, call, componentFiles, bundle,
                 disk, docVars, blockVars, rerunVars, arg>>

(* ------------------------------------------------------------------ *)
(* categorizeImport                                                    *)
(* ------------------------------------------------------------------ *)

\* NPM_DEPENDENCY_PATTERNS in their order: /^text$/ when anchored at the
\* end, /^text/ otherwise
NpmDependencyPatterns ==
  << [anchored |-> TRUE,
      text |-> <<"l", "u", "c", "i", "d", "e", "-", "r", "e", "a", "c",
                 "t">>],
     [anchored |-> TRUE,
      text |-> <<"c", "l", "a", "s", "s", "-", "v", "a", "r", "i", "a", "n",
                 "c", "e", "-", "a", "u", "t", "h", "o", "r", "i", "t", "y">>],
     [anchored |-> TRUE,
      text |-> <<"c", "l", "s", "x">>],
     [anchored |-> TRUE,
      text |-> <<"t", "a", "i", "l", "w", "i", "n", "d", "-", "m", "e", "r",
                 "g", "e">>],
     [anchored |-> TRUE,
      text |-> <<"m", "o", "t", "i", "o", "n">>],
     [anchored |-> TRUE,
      text |-> <<"f", "r", "a", "m", "e", "r", "-", "m", "o", "t", "i", "o",
                 "n">>],
     [anchored |-> FALSE, text |-> <<"@", "r", "a", "d", "i", "x", "-", "u",
                                     "i", "/">>],
     [anchored |-> TRUE, text |-> <<"d", "a", "t", "e", "-", "f", "n", "s">>],
     [anchored |-> TRUE, text |-> <<"z", "o", "d">>] >>

\* EXCLUDED_PACKAGES
ExcludedPackages ==
  { <<"r", "e", "a", "c", "t">>,
    <<"r", "e", "a", "c", "t", "-", "d", "o", "m">>,
    <<"n", "e", "x", "t">>,
    <<"n", "e", "x", "t", "/", "l", "i", "n", "k">>,
    <<"n", "e", "x", "t", "/", "i", "m", "a", "g", "e">>,
    <<"n", "e", "x", "t", "/", "n", "a", "v", "i", "g", "a", "t", "i", "o",
      "n">> }

RegistryAlias ==
  <<"@", "/", "r", "e", "g", "i", "s", "t", "r", "y", "/">>

LibAlias ==
  <<"@", "/", "l", "i", "b", "/">>

AliasRoot ==
  <<"@", "/">>

Dot ==
  <<".">>

DotSlash ==
  <<".", "/">>

DotDot ==
  <<".", ".">>

DotDotSlash ==
  <<".", ".", "/">>

\* the text categorizeImport looks for in the resolved path of a relative
\* import
RegistrySegment ==
  <<"r", "e", "g", "i", "s", "t", "r", "y", "/">>

\* pattern.test(importPath)
PatternTest(pattern, s) ==
  IF pattern.anchored THEN s = pattern.text ELSE StartsWith(s, pattern.text)

\* importPath.split("/").slice(0, 2).join("/")
ScopeRoot(importPath) ==
  LET parts == Split(importPath, Slash)
  IN  Join(SubSeq(parts, 1, IF Len(parts) < 2 THEN Len(parts) ELSE 2), Slash)

\* { ...DEFAULT_SHADCN_COMPONENTS, ...options.shadcnComponents }
RECURSIVE Spread(_, _)
Spread(object, entries) ==
  IF entries = <<>> THEN object
  ELSE Spread(MapSet(object, Head(entries)[1], Head(entries)[2]),
              Tail(entries))

\* shadcnMap[componentFile] || componentFile
ShadcnNameOf(shadcnMap, componentFile) ==
  IF MapHas(shadcnMap, componentFile) /\ MapGet(shadcnMap,
                                                componentFile) # <<>>
    THEN MapGet(shadcnMap, componentFile)
    ELSE componentFile

\* the segments of a path with "." and "" dropped and ".." resolved; a path
\* that leaves the working directory keeps its leading ".."
RECURSIVE Normalize(_, _)
Normalize(done, todo) ==
  IF todo = <<>> THEN done
  ELSE LET seg == Head(todo)
       IN  IF seg = <<>> \/ seg = Dot THEN Normalize(done, Tail(todo))
           ELSE IF seg = DotDot /\ done # <<>> /\ done[Len(done)] # DotDot
             THEN Normalize(SubSeq(done, 1, Len(done) - 1), Tail(todo))
           ELSE Normalize(Append(done, seg), Tail(todo))

\* path.dirname of a file path, as segments
DirSegments(filePath) ==
  LET parts == Split(filePath, Slash)
  IN  SubSeq(parts, 1, Len(parts) - 1)

\* path.relative(process.cwd(), path.resolve(path.dirname(filePath), importPath))
\* for a file path given from the working directory
RelativeToCwd(filePath, importPath) ==
  Join(Normalize(<<>>, DirSegments(filePath) \o Split(importPath, Slash)),
       Slash)

\* path.basename
Basename(p) ==
  LET parts == SelectSeq(Split(p, Slash), LAMBDA seg : seg # <<>>)
  IN  IF parts = <<>> THEN <<>> ELSE parts[Len(parts)]

Category(type, name) ==
  [type |-> type, name |-> name]

\* the branch of categorizeImport for specifiers that start neither with "."
\* nor with "@/"
NpmCategory(importPath) ==
  IF \E i \in 1..Len(NpmDependencyPatterns) :
       PatternTest(NpmDependencyPatterns[i], importPath)
    THEN Category("npm", IF StartsWith(importPath, <<"@">>)
                           THEN ScopeRoot(importPath) ELSE importPath)
    ELSE Category("ignore", importPath)

categorizeImport(importPath, filePath, shadcnMap) ==
  IF importPath \in ExcludedPackages
    THEN Category("ignore", importPath)
  ELSE IF ~StartsWith(importPath, Dot) /\ ~StartsWith(importPath, AliasRoot)
    THEN NpmCategory(importPath)
  ELSE IF StartsWith(importPath, UiAlias)
    THEN Category("shadcn",
                  ShadcnNameOf(shadcnMap, ReplaceFirst(importPath, UiAlias,
                                                       <<>>)))
  ELSE IF StartsWith(importPath, RegistryAlias)
    THEN LET parts == Split(ReplaceFirst(importPath, RegistryAlias, <<>>),
                            Slash)
         IN  Category("internal", parts[Len(parts)])
  ELSE IF /\ \/ StartsWith(importPath, DotSlash)
             \/ StartsWith(importPath, DotDotSlash)
          /\ Includes(RelativeToCwd(filePath, importPath), RegistrySegment)
    THEN Category("internal", StripSourceExt(Basename(importPath)))
  ELSE IF StartsWith(importPath, LibAlias)
    THEN Category("internal", StripSourceExt(ReplaceFirst(importPath,
                                                          LibAlias, <<>>)))
  ELSE Category("ignore", importPath)

\* the import specifiers categorizeImport is called with
ImportPaths ==
  { <<"r", "e", "a", "c", "t">>,
    <<"n", "e", "x", "t", "/", "l", "i", "n", "k">>,
    <<"c", "l", "s", "x">>,
    <<"z", "o", "d">>,
    <<"l", "o", "d", "a", "s", "h">>,
    <<"@", "r", "a", "d", "i", "x", "-", "u", "i", "/", "r", "e", "a", "c",
      "t", "-", "d", "i", "a", "l", "o", "g">>,
    <<"@", "r", "a", "d", "i", "x", "-", "u", "i", "/", "a", "/", "b">>,
    <<"@", "s", "/", "p">>,
    <<"@", "/", "c", "o", "m", "p", "o", "n", "e", "n", "t", "s", "/", "u",
      "i", "/", "b", "u", "t", "t", "o", "n">>,
    <<"@", "/", "c", "o", "m", "p", "o", "n", "e", "n", "t", "s", "/", "u",
      "i", "/", "x">>,
    <<"@", "/", "r", "e", "g", "i", "s", "t", "r", "y", "/", "u", "i", "/",
      "a">>,
    <<"@", "/", "l", "i", "b", "/", "u", "t", "i", "l", "s">>,
    <<"@", "/", "l", "i", "b", "/", "c", ".", "t", "s">>,
    <<"@", "/", "h", "o", "o", "k", "s", "/", "h">>,
    <<".", "/", "b">>,
    <<".", ".", "/", "l", "i", "b", "/", "c", ".", "t", "s">>,
    <<".", ".", "/", ".", ".", "/", "l", "i", "b", "/", "c">>,
    <<".", ".", "/", ".", ".", "/", "m", "y", "-", "r", "e", "g", "i", "s",
      "t", "r", "y", "/", "x">> }

\* the directories a configuration may name as componentsDir
ComponentsDirOptions ==
  { ComponentsDir, <<"s", "r", "c", "/", "c", "o", "m", "p", "o", "n", "e",
                     "n", "t", "s">> }

\* the values of options.shadcnComponents
ShadcnOverrides ==
  { <<>>, << <<<<"x">>, <<"y">>>> >> }

CategorizeArgs ==
  { [fn |-> "categorizeImport", importPath |-> i, componentsDir |-> d,
     filePath |-> d \o <<"/", "u", "i", "/", "a">> \o DotTsx,
     shadcnComponents |-> o] :
      i \in ImportPaths, d \in ComponentsDirOptions, o \in ShadcnOverrides }

\* one call categorizeImport(importPath, filePath, options, shadcnMap)
CategorizeImport ==
  /\ pc = "call"
  /\ arg.fn = "categorizeImport"
  /\ ret' = categorizeImport(arg.importPath, arg.filePath,
                             Spread(DefaultShadcnComponents,
                                    arg.shadcnComponents))
  /\ pc' = "returned"
  /\ UNCHANGED <<baseUrl, tree, dirIdx, fileIdx, components, registry,
                 compIdx, collected, stack, call, componentFiles, bundle,
                 disk, docVars, blockVars, rerunVars, arg>>

(* ------------------------------------------------------------------ *)
(* extractDependenciesFromContent                                      *)
(* ------------------------------------------------------------------ *)

\* most import statements of one source text
MaxImports ==
  2

\* an import statement of a source text: the tokens between the keyword
\* import and the quoted specifier, one space between tokens, and the
\* specifier
Statement(clause, path) ==
  [clause |-> clause, path |-> path]

ImportKeyword ==
  <<"i", "m", "p", "o", "r", "t">>

FromKeyword ==
  <<"f", "r", "o", "m">>

AsKeyword ==
  <<"a", "s">>

TypeKeyword ==
  <<"t", "y", "p", "e">>

Comma ==
  <<",">>

Star ==
  <<"*">>

OpenBrace ==
  <<"{">>

CloseBrace ==
  <<"}">>

Digits ==
  <<"0", "1", "2", "3", "4", "5", "6", "7", "8", "9">>

\* the characters of \w
WordChars ==
  Range(LowerChars) \cup Range(UpperChars) \cup Range(Digits) \cup {"_"}

\* a token that \w+ matches as a whole
IsWord(token) ==
  token # <<>> /\ \A i \in 1..Len(token) : token[i] \in WordChars

\* the token at a place of a token list, the empty text past its end
At(tokens, i) ==
  IF i \in 1..Len(tokens) THEN tokens[i] ELSE <<>>

\* where one binding of importRegex that starts at token i ends
\* ( \{[^}]*\} | \*\s+as\s+\w+ | \w+ ); 0 when none starts there
BindingEnd(tokens, i) ==
  IF At(tokens, i) = OpenBrace
    THEN LET closes == { j \in (i + 1)..Len(tokens) : tokens[j] = CloseBrace }
         IN  IF closes = {} THEN 0
             ELSE CHOOSE j \in closes : \A k \in closes : j <= k
  ELSE IF At(tokens, i) = Star
    THEN IF At(tokens, i + 1) = AsKeyword /\ IsWord(At(tokens, i + 2))
           THEN i + 2 ELSE 0
  ELSE IF IsWord(At(tokens, i)) THEN i
  ELSE 0

\* the bindings from token i on, separated by commas, are followed by from
\* and nothing else
RECURSIVE BindingsThenFrom(_, _)
BindingsThenFrom(tokens, i) ==
  LET end == BindingEnd(tokens, i)
  IN  IF end = 0 THEN FALSE
      ELSE IF At(tokens, end + 1) = Comma
        THEN BindingsThenFrom(tokens, end + 2)
      ELSE At(tokens, end + 1) = FromKeyword /\ Len(tokens) = end + 1

\* importRegex matches the statement: a bare specifier, or bindings and from
MatchesImportRegex(statement) ==
  \/ statement.clause = <<>>
  \/ BindingsThenFrom(statement.clause, 1)

\* match[0], the text importRegex matched
MatchText(statement) ==
  Join(<<ImportKeyword>> \o statement.clause, <<" ">>)
    \o <<" ", "\"">> \o statement.path \o <<"\"">>

\* the statements of a source text that add a dependency
Contributing(content) ==
  SelectSeq(content,
            LAMBDA st : /\ MatchesImportRegex(st)
                        /\ st.path # <<>>
                        /\ ~Includes(MatchText(st),
                                     ImportKeyword \o <<" ">> \o TypeKeyword))

\* the names of one category among the contributing statements, each once
NamesOfType(content, filePath, shadcnMap, type) ==
  LET cats == [ i \in 1..Len(Contributing(content)) |->
                  categorizeImport(Contributing(content)[i].path, filePath,
                                   shadcnMap) ]
      ofType == SelectSeq(cats, LAMBDA c : c.type = type)
  IN  SetAddAll(<<>>, [ i \in 1..Len(ofType) |-> ofType[i].name ])

extractDependenciesFromContent(content, filePath, shadcnMap) ==
  [ dependencies |-> NamesOfType(content, filePath, shadcnMap, "npm"),
    registryDependencies |-> NamesOfType(content, filePath, shadcnMap,
                                         "shadcn"),
    internalDependencies |-> NamesOfType(content, filePath, shadcnMap,
                                         "internal") ]

\* import statements a source text may hold
ImportStatements ==
  { Statement(<<OpenBrace, <<"c", "n">>, CloseBrace, FromKeyword>>,
              <<"@", "/", "l", "i", "b", "/", "u", "t", "i", "l", "s">>),
    Statement(<<TypeKeyword, OpenBrace, <<"X">>, CloseBrace, FromKeyword>>,
              <<"c", "l", "s", "x">>),
    Statement(<<<<"t", "y", "p", "e", "s">>, FromKeyword>>,
              <<"z", "o", "d">>),
    Statement(<<Star, AsKeyword, <<"R">>, FromKeyword>>,
              <<"@", "r", "a", "d", "i", "x", "-", "u", "i", "/", "r", "e", "a", "c", "t", "-", "d", "i", "a", "l", "o", "g">>),
    Statement(<<>>,
              <<"c", "l", "s", "x">>),
    Statement(<<<<"R", "e", "a", "c", "t">>, Comma, OpenBrace, <<"u", "s", "e", "S", "t", "a", "t", "e">>, CloseBrace, FromKeyword>>,
              <<"r", "e", "a", "c", "t">>),
    Statement(<<OpenBrace, <<"B", "u", "t", "t", "o", "n">>, CloseBrace, FromKeyword>>,
              <<"@", "/", "c", "o", "m", "p", "o", "n", "e", "n", "t", "s", "/", "u", "i", "/", "b", "u", "t", "t", "o", "n">>),
    Statement(<<TypeKeyword, <<"T">>, FromKeyword>>,
              <<"@", "/", "l", "i", "b", "/", "t">>) }

DependencyArgs ==
  { [fn |-> "extractDependenciesFromContent", content |-> c,
     filePath |-> ComponentsDir \o <<"/", "u", "i", "/", "a">> \o DotTsx,
     shadcnComponents |-> <<>>] :
      c \in UNION { [1..n -> ImportStatements] : n \in 0..MaxImports } }

\* one call extractDependenciesFromContent(content, filePath, options)
ExtractDependencies ==
  /\ pc = "call"
  /\ arg.fn = "extractDependenciesFromContent"
  /\ ret' = extractDependenciesFromContent(
              arg.content, arg.filePath,
              Spread(DefaultShadcnComponents, arg.shadcnComponents))
  /\ pc' = "returned"
  /\ UNCHANGED <<baseUrl, tree, dirIdx, fileIdx, components, registry,
                 compIdx, collected, stack, call, componentFiles, bundle,
                 disk, docVars, blockVars, rerunVars, arg>>

(* ------------------------------------------------------------------ *)
(* extractExportsFromContent                                           *)
(* ------------------------------------------------------------------ *)

\* most lines of one source text
MaxLines ==
  2

ExportKeyword ==
  <<"e", "x", "p", "o", "r", "t">>

ConstKeyword ==
  <<"c", "o", "n", "s", "t">>

FunctionKeyword ==
  <<"f", "u", "n", "c", "t", "i", "o", "n">>

AsyncKeyword ==
  <<"a", "s", "y", "n", "c">>

ClassKeyword ==
  <<"c", "l", "a", "s", "s">>

DefaultKeyword ==
  <<"d", "e", "f", "a", "u", "l", "t">>

LineCommentMark ==
  <<"/", "/">>

BlockCommentOpen ==
  <<"/", "*">>

BlockCommentClose ==
  <<"*", "/">>

DisplayNameProperty ==
  <<".", "d", "i", "s", "p", "l", "a", "y", "N", "a", "m", "e">>

EqualsSign ==
  <<"=">>

OpenParen ==
  <<"(">>

\* a source text is a sequence of lines, a line a sequence of tokens with
\* white space between them (none before DisplayNameProperty)

\* content.replace(/\/\/.*$/gm, ""): every line loses what follows its first //
StripLineComments(content) ==
  [ l \in 1..Len(content) |->
      LET marks == { i \in 1..Len(content[l]) : content[l][i] = LineCommentMark }
      IN  IF marks = {} THEN content[l]
          ELSE SubSeq(content[l], 1, (CHOOSE i \in marks : \A j \in marks : i <= j) - 1) ]

\* the lines of a text one after the other
RECURSIVE Flatten(_)
Flatten(seqs) ==
  IF seqs = <<>> THEN <<>> ELSE Head(seqs) \o Flatten(Tail(seqs))

\* result.replace(/\/\*[\s\S]*?\*\//g, ""): from each /* to the first */ after
\* it; a /* with no */ after it stays
RECURSIVE StripBlockComments(_)
StripBlockComments(tokens) ==
  LET opens == { i \in 1..Len(tokens) :
                   /\ tokens[i] = BlockCommentOpen
                   /\ \E j \in (i + 1)..Len(tokens) : tokens[j] = BlockCommentClose }
      open == CHOOSE i \in opens : \A k \in opens : i <= k
      close == CHOOSE j \in (open + 1)..Len(tokens) :
                 /\ tokens[j] = BlockCommentClose
                 /\ \A k \in (open + 1)..(j - 1) : tokens[k] # BlockCommentClose
  IN  IF opens = {} THEN tokens
      ELSE SubSeq(tokens, 1, open - 1)
             \o StripBlockComments(SubSeq(tokens, close + 1, Len(tokens)))

\* removeComments: line comments first, block comments second
removeComments(content) ==
  StripBlockComments(Flatten(StripLineComments(content)))

\* the places of a token list, in order
Places(tokens) ==
  [ i \in 1..Len(tokens) |-> i ]

\* the first } after place i, 0 if none
ClosingBrace(tokens, i) ==
  LET closes == { j \in (i + 1)..Len(tokens) : tokens[j] = CloseBrace }
  IN  IF closes = {} THEN 0 ELSE CHOOSE j \in closes : \A k \in closes : j <= k

\* exportList.split(","): the items as token lists
RECURSIVE SplitItems(_)
SplitItems(tokens) ==
  LET commas == { i \in 1..Len(tokens) : tokens[i] = Comma }
      c == CHOOSE i \in commas : \A k \in commas : i <= k
  IN  IF commas = {} THEN <<tokens>>
      ELSE <<SubSeq(tokens, 1, c - 1)>> \o SplitItems(SubSeq(tokens, c + 1, Len(tokens)))

\* the name an item of an export list gives: the second name of the first
\* "x as y" in it, else the trimmed item itself
ItemName(item) ==
  LET renames == { i \in 1..Len(item) :
                     /\ IsWord(item[i])
                     /\ At(item, i + 1) = AsKeyword
                     /\ IsWord(At(item, i + 2)) }
  IN  IF renames = {} THEN Join(item, <<" ">>)
      ELSE item[(CHOOSE i \in renames : \A k \in renames : i <= k) + 2]

\* pattern 1, one match: the names of export { ... } that are kept
ListNamesAt(tokens, i) ==
  LET items == SplitItems(SubSeq(tokens, i + 2, ClosingBrace(tokens, i + 1) - 1))
      names == [ k \in 1..Len(items) |-> ItemName(items[k]) ]
  IN  SelectSeq(names, LAMBDA n : n # <<>> /\ ~StartsWith(n, TypeKeyword \o <<" ">>))

\* pattern 1: /export\s*\{([^}]+)\}/g
RECURSIVE ListNamesFrom(_, _)
ListNamesFrom(tokens, i) ==
  IF i > Len(tokens) THEN <<>>
  ELSE IF /\ tokens[i] = ExportKeyword
          /\ At(tokens, i + 1) = OpenBrace
          /\ ClosingBrace(tokens, i + 1) # 0
    THEN ListNamesAt(tokens, i) \o ListNamesFrom(tokens, ClosingBrace(tokens, i + 1) + 1)
  ELSE ListNamesFrom(tokens, i + 1)

\* a token that starts with one of the given characters
StartsWithOneOf(token, chars) ==
  token # <<>> /\ Head(token) \in chars

\* pattern 2: /export\s+const\s+(\w+)\s*[=:]/g
ConstNames(tokens) ==
  LET hits == SelectSeq(Places(tokens),
                        LAMBDA i : /\ tokens[i] = ExportKeyword
                                   /\ At(tokens, i + 1) = ConstKeyword
                                   /\ IsWord(At(tokens, i + 2))
                                   /\ StartsWithOneOf(At(tokens, i + 3), {"=", ":"}))
  IN  [ k \in 1..Len(hits) |-> tokens[hits[k] + 2] ]

\* pattern 3: /export\s+(?:async\s+)?function\s+(\w+)\s*[(<]/g
FunctionNames(tokens) ==
  LET at(i) == IF At(tokens, i + 1) = AsyncKeyword THEN i + 2 ELSE i + 1
      hits == SelectSeq(Places(tokens),
                        LAMBDA i : /\ tokens[i] = ExportKeyword
                                   /\ At(tokens, at(i)) = FunctionKeyword
                                   /\ IsWord(At(tokens, at(i) + 1))
                                   /\ StartsWithOneOf(At(tokens, at(i) + 2), {"(", "<"}))
  IN  [ k \in 1..Len(hits) |-> tokens[at(hits[k]) + 1] ]

\* pattern 4: /export\s+class\s+(\w+)/g
ClassNames(tokens) ==
  LET hits == SelectSeq(Places(tokens),
                        LAMBDA i : /\ tokens[i] = ExportKeyword
                                   /\ At(tokens, i + 1) = ClassKeyword
                                   /\ IsWord(At(tokens, i + 2)))
  IN  [ k \in 1..Len(hits) |-> tokens[hits[k] + 2] ]

\* pattern 5: /export\s+default\s+(?:function\s+)?(\w+)/g, the last match
DefaultExport(tokens) ==
  LET named(i) == At(tokens, i + 2) = FunctionKeyword /\ IsWord(At(tokens, i + 3))
      hits == SelectSeq(Places(tokens),
                        LAMBDA i : /\ tokens[i] = ExportKeyword
                                   /\ At(tokens, i + 1) = DefaultKeyword
                                   /\ IsWord(At(tokens, i + 2)))
      last == hits[Len(hits)]
  IN  IF hits = <<>> THEN Absent
      ELSE Present(IF named(last) THEN tokens[last + 3] ELSE tokens[last + 2])

\* a string literal that holds one word
IsQuotedWord(token) ==
  /\ Len(token) >= 3
  /\ Head(token) \in Quotes
  /\ token[Len(token)] \in Quotes
  /\ IsWord(SubSeq(token, 2, Len(token) - 1))

\* the test isExported of pattern 6: varName inside an export list, or
\* export const varName
IsExported(tokens, varName) ==
  \/ \E i \in 1..Len(tokens) :
       /\ tokens[i] = ExportKeyword
       /\ At(tokens, i + 1) = OpenBrace
       /\ \E j \in (i + 2)..Len(tokens) :
            /\ tokens[j] = varName
            /\ \A k \in (i + 2)..j : tokens[k] # CloseBrace
            /\ \E c \in (j + 1)..Len(tokens) : tokens[c] = CloseBrace
  \/ \E i \in 1..Len(tokens) :
       /\ tokens[i] = ExportKeyword
       /\ At(tokens, i + 1) = ConstKeyword
       /\ At(tokens, i + 2) = varName

\* pattern 6: /(\w+)\.displayName\s*=\s*["'](\w+)["']/g, the names it pushes
DisplayNames(tokens) ==
  LET hits == SelectSeq(Places(tokens),
                        LAMBDA i : /\ IsWord(tokens[i])
                                   /\ At(tokens, i + 1) = DisplayNameProperty
                                   /\ At(tokens, i + 2) = EqualsSign
                                   /\ IsQuotedWord(At(tokens, i + 3)))
      vars6 == [ k \in 1..Len(hits) |-> tokens[hits[k]] ]
  IN  SelectSeq(vars6, LAMBDA v : IsExported(tokens, v))

\* the array exports before the last filter
PushedExports(tokens) ==
  SetAddAll(
    SetAddAll(
      SetAddAll(SetAddAll(ListNamesFrom(tokens, 1), ConstNames(tokens)),
                FunctionNames(tokens)),
      ClassNames(tokens)),
    DisplayNames(tokens))

\* /^[A-Z]/.test(name) || /^[a-z]/.test(name)
StartsWithLetter(name) ==
  name # <<>> /\ Head(name) \in Range(UpperChars) \cup Range(LowerChars)

\* [...new Set(exports)].filter(...)
FilteredExports(exports) ==
  SelectSeq(SetAddAll(<<>>, exports),
            LAMBDA name : ~StartsWith(name, TypeKeyword) /\ StartsWithLetter(name))

\* the scan of extractExportsFromContent over a text without comments
ExportsOfTokens(tokens) ==
  [ exports |-> FilteredExports(PushedExports(tokens)),
    defaultExport |-> DefaultExport(tokens) ]

extractExportsFromContent(content) ==
  ExportsOfTokens(removeComments(content))

\* lines a source text may hold
ExportLines ==
  { <<ExportKeyword, ConstKeyword, <<"F", "o", "o">>, EqualsSign, OpenParen, <<")">>, <<"=", ">">>,
   OpenBrace, CloseBrace>>,
    <<<<"F", "o", "o">>, DisplayNameProperty, EqualsSign, <<"\"", "F", "o", "o", "\"">>>>,
    <<LineCommentMark, ExportKeyword, ConstKeyword, <<"B", "a", "r">>, EqualsSign, <<"1">>>>,
    <<BlockCommentOpen, ExportKeyword, ConstKeyword, <<"B", "a", "r">>, EqualsSign, <<"1">>>>,
    <<LineCommentMark, BlockCommentClose>>,
    <<BlockCommentClose, ExportKeyword, ClassKeyword, <<"B", "a", "z">>>>,
    <<ExportKeyword, ConstKeyword, <<"t", "y", "p", "e", "s">>, EqualsSign, <<"1">>>>,
    <<ExportKeyword, OpenBrace, <<"F", "o", "o">>, Comma, TypeKeyword, <<"T">>, Comma,
      <<"B", "a", "z">>, AsKeyword, <<"Q", "u", "x">>, Comma, <<"_", "x">>, CloseBrace>>,
    <<ExportKeyword, AsyncKeyword, FunctionKeyword, <<"l", "o", "a", "d">>, OpenParen, <<")">>>>,
    <<ExportKeyword, DefaultKeyword, FunctionKeyword, <<"P", "a", "g", "e">>, OpenParen, <<")">>>> }

ExportArgsOfAnyText ==
  { [fn |-> "extractExportsFromContent", content |-> c] :
      c \in UNION { [1..n -> ExportLines] : n \in 0..MaxLines } }

\* one line as TypeScript reads it: the tokens outside comments, and whether
\* a block comment is still open at its end
RECURSIVE CodeOfLine(_, _)
CodeOfLine(tokens, inBlock) ==
  IF tokens = <<>> THEN [code |-> <<>>, inBlock |-> inBlock]
  ELSE IF inBlock
    THEN CodeOfLine(Tail(tokens), Head(tokens) # BlockCommentClose)
  ELSE IF Head(tokens) = LineCommentMark
    THEN [code |-> <<>>, inBlock |-> FALSE]
  ELSE IF Head(tokens) = BlockCommentOpen
    THEN CodeOfLine(Tail(tokens), TRUE)
  ELSE LET rest == CodeOfLine(Tail(tokens), FALSE)
       IN  [code |-> <<Head(tokens)>> \o rest.code, inBlock |-> rest.inBlock]

\* a text as TypeScript reads it
RECURSIVE CodeOfText(_, _)
CodeOfText(content, inBlock) ==
  IF content = <<>> THEN [code |-> <<>>, inBlock |-> inBlock]
  ELSE LET first == CodeOfLine(Head(content), inBlock)
           rest == CodeOfText(Tail(content), first.inBlock)
       IN  [code |-> first.code \o rest.code, inBlock |-> rest.inBlock]

\* the tokens of a text that are not inside a comment
CodeOf(content) ==
  CodeOfText(content, FALSE).code

\* a text TypeScript accepts: every block comment is closed and no */ stands
\* outside a comment
WellFormed(content) ==
  /\ ~CodeOfText(content, FALSE).inBlock
  /\ \A i \in 1..Len(CodeOf(content)) : CodeOf(content)[i] # BlockCommentClose

\* the source texts extractExportsFromContent is called with
ExportArgs ==
  { a \in ExportArgsOfAnyText : WellFormed(a.content) }

\* one call extractExportsFromContent(content)
ExtractExports ==
  /\ pc = "call"
  /\ arg.fn = "extractExportsFromContent"
  /\ ret' = extractExportsFromContent(arg.content)
  /\ pc' = "returned"
  /\ UNCHANGED <<baseUrl, tree, dirIdx, fileIdx, components, registry,
                 compIdx, collected, stack, call, componentFiles, bundle,
                 disk, docVars, blockVars, rerunVars, arg>>

(* ------------------------------------------------------------------ *)
(* The functions above, each called on its own                         *)
(* ------------------------------------------------------------------ *)

CallInit ==
  /\ baseUrl \in BaseUrls
  /\ tree = <<Missing, Missing>>
  /\ pc = "call"
  /\ dirIdx = 1
  /\ fileIdx = 1
  /\ components = <<>>
  /\ registry = <<>>
  /\ compIdx = 1
  /\ collected = <<>>
  /\ stack = <<>>
  /\ call = <<>>
  /\ componentFiles = <<>>
  /\ bundle = Absent
  /\ disk = <<>>
  /\ docs = <<>>
  /\ docDirIdx = 1
  /\ docFileIdx = 1
  /\ previewIdx = 1
  /\ blocks = <<>>
  /\ run = 1
  /\ firstDisk = <<>>
  /\ arg \in RoundTripArgs \cup CategorizeArgs \cup DependencyArgs \cup ExportArgs
  /\ ret = <<>>

CallNext ==
  \/ Serialize
  \/ Parse
  \/ CategorizeImport
  \/ ExtractDependencies
  \/ ExtractExports

CallSpec ==
  CallInit /\ [][CallNext]_vars

(* ------------------------------------------------------------------ *)
(* Properties of the functions called on their own                     *)
(* ------------------------------------------------------------------ *)

\* a catalog that holds a descriptor of the given name after another one
CatalogWith(name) ==
  << [name |-> name \o <<"-">>], [name |-> name] >>

\* C15: for every base URL and every name, the reference that
\* internalToRegistryDeps writes is read back by collectInternalDeps as a call
\* for that very name, which finds the descriptor of that name in the catalog
C15_RoundTrip ==
  (pc = "parsed") =>
    /\ Len(ret) = Len(arg.names)
    /\ \A i \in 1..Len(ret) :
         /\ ret[i] = << arg.names[i] >>
         /\ LET all == CatalogWith(arg.names[i])
            IN  all[FindComponent(all, ret[i][1])].name = arg.names[i]

\* a name that itself holds the base URL, a slash in front and the .json
\* suffix has made the round trip under a base URL that ends with a slash
C15_Witness ==
  /\ pc = "parsed"
  /\ arg.base = <<"u", "/", "r", "/">>
  /\ arg.names = << <<"/", "u", "/", "r", ".", "j", "s", "o", "n">> >>
  /\ ret = << << <<"/", "u", "/", "r", ".", "j", "s", "o", "n">> >> >>

\* the category the rules give an import specifier: a relative specifier is
\* internal when it resolves inside options.componentsDir
RuleCategory(importPath, filePath, componentsDir, shadcnMap) ==
  IF importPath \in ExcludedPackages THEN "ignore"
  ELSE IF ~StartsWith(importPath, Dot) /\ ~StartsWith(importPath, AliasRoot)
    THEN IF \E i \in 1..Len(NpmDependencyPatterns) :
              PatternTest(NpmDependencyPatterns[i], importPath)
           THEN "npm" ELSE "ignore"
  ELSE IF StartsWith(importPath, UiAlias) THEN "shadcn"
  ELSE IF StartsWith(importPath, RegistryAlias) \/ StartsWith(importPath, LibAlias)
    THEN "internal"
  ELSE IF /\ StartsWith(importPath, Dot)
          /\ StartsWith(RelativeToCwd(filePath, importPath), componentsDir \o Slash)
    THEN "internal"
  ELSE "ignore"

\* C16: categorizeImport gives every specifier the one category of the rules:
\* excluded packages and unknown specifiers are ignored, allow-listed bare
\* specifiers are packages named by their @scope/pkg root, @/components/ui/<x>
\* is the catalog name of <x>, @/registry/..., @/lib/<x> and relative
\* specifiers that resolve inside the registry tree are internal
C16_CategoryByRule ==
  (pc = "returned" /\ arg.fn = "categorizeImport") =>
    /\ ret.type \in {"npm", "shadcn", "internal", "ignore"}
    /\ ret.type = RuleCategory(arg.importPath, arg.filePath, arg.componentsDir,
                               Spread(DefaultShadcnComponents, arg.shadcnComponents))
    /\ arg.importPath = UiAlias \o <<"b", "u", "t", "t", "o", "n">>
         => ret = Category("shadcn", <<"b", "u", "t", "t", "o", "n">>)
    /\ arg.importPath = LibAlias \o <<"u", "t", "i", "l", "s">>
         => ret = Category("internal", <<"u", "t", "i", "l", "s">>)
    /\ arg.importPath = <<"r", "e", "a", "c", "t">> => ret.type = "ignore"
    /\ arg.importPath = <<"@", "r", "a", "d", "i", "x", "-", "u", "i", "/">>
                           \o <<"r", "e", "a", "c", "t", "-", "d", "i", "a", "l", "o", "g">>
         => ret = Category("npm", arg.importPath)
    /\ (ret.type = "npm" /\ StartsWith(arg.importPath, <<"@">>))
         => ret.name = ScopeRoot(arg.importPath)
    /\ (ret.type = "shadcn" /\ arg.shadcnComponents = <<>>
          /\ ~MapHas(DefaultShadcnComponents, ReplaceFirst(arg.importPath, UiAlias, <<>>)))
         => ret.name = ReplaceFirst(arg.importPath, UiAlias, <<>>)

\* a type-only import statement of TypeScript: import type X from,
\* import type { X } from, import type * as X from
TypeOnly(statement) ==
  /\ statement.clause # <<>>
  /\ Head(statement.clause) = TypeKeyword
  /\ At(statement.clause, 2) \notin {FromKeyword, Comma, <<>>}

\* the names the statements of a text that are not type-only classify to, for
\* one category
NamesDue(content, filePath, shadcnMap, type) ==
  { categorizeImport(content[i].path, filePath, shadcnMap).name :
      i \in { k \in 1..Len(content) :
                /\ ~TypeOnly(content[k])
                /\ categorizeImport(content[k].path, filePath, shadcnMap).type = type } }

\* C17: the dependency lists hold the classified names of exactly the import
\* statements that are not type-only: a type-only statement adds nothing,
\* every other statement of a package, catalog path or internal path adds
\* its name
C17_ExactlyNonTypeImports ==
  (pc = "returned" /\ arg.fn = "extractDependenciesFromContent") =>
    LET shadcnMap == Spread(DefaultShadcnComponents, arg.shadcnComponents)
    IN  /\ Range(ret.dependencies)
             = NamesDue(arg.content, arg.filePath, shadcnMap, "npm")
        /\ Range(ret.registryDependencies)
             = NamesDue(arg.content, arg.filePath, shadcnMap, "shadcn")
        /\ Range(ret.internalDependencies)
             = NamesDue(arg.content, arg.filePath, shadcnMap, "internal")

\* the names a text declares as exports outside its comments: the items of
\* export lists that are not type-only, and the const, function and class
\* declarations
DeclaredExports(content) ==
  LET code == CodeOf(content)
  IN  Range(ListNamesFrom(code, 1)) \cup Range(ConstNames(code))
        \cup Range(FunctionNames(code)) \cup Range(ClassNames(code))

\* C18: an export declaration that stands only inside a line or block comment
\* is not reported, and a name that is exported and given a displayName is
\* reported once; the text of the two named examples gives ["Foo"] and []
C18_CommentsIgnored ==
  (pc = "returned" /\ arg.fn = "extractExportsFromContent") =>
    /\ Range(ret.exports) \subseteq DeclaredExports(arg.content)
    /\ NoDup(ret.exports)
    /\ arg.content = << <<ExportKeyword, ConstKeyword, <<"F", "o", "o">>, EqualsSign, OpenParen,
                          <<")">>, <<"=", ">">>,
                          OpenBrace, CloseBrace>>,
                        <<<<"F", "o", "o">>, DisplayNameProperty, EqualsSign, <<"\"", "F", "o",
                                                                                "o", "\"">>>> >>
         => ret.exports = << <<"F", "o", "o">> >>
    /\ arg.content = << <<LineCommentMark, ExportKeyword, ConstKeyword, <<"B", "a", "r">>,
                          EqualsSign, <<"1">>>> >>
         => ret.exports = <<>>

\* C19: the export list has no duplicates, and a name that an export list, a
\* const, a function or a class declaration exports is in it exactly when it
\* starts with a letter
C19_LetterNamesOnce ==
  (pc = "returned" /\ arg.fn = "extractExportsFromContent") =>
    /\ NoDup(ret.exports)
    /\ \A name \in DeclaredExports(arg.content) :
         name \in Range(ret.exports) <=> StartsWithLetter(name)

(* ------------------------------------------------------------------ *)
(* Properties of the scan when a file cannot be read                   *)
(* ------------------------------------------------------------------ *)

\* a directory entry scanComponents makes a descriptor of when it can read it
IsSourceFile(entry) ==
  /\ entry.file # IndexTs
  /\ entry.file # IndexTsx
  /\ EndsWith(entry.file, DotTsx) \/ EndsWith(entry.file, DotTs)
  /\ entry.kind = "file"

\* C20: once the scan is over, every source file that can be read has its
\* descriptor in the catalog, whatever other file of its subdirectory or of
\* another one could not be read
C20_OnlyFailedFileMissing ==
  (pc # "scan") =>
    \A d \in 1..Len(ComponentsDirs) :
      \A i \in 1..Len(tree[d].files) :
        (tree[d].exists /\ IsSourceFile(tree[d].files[i])) =>
          \E k \in 1..Len(components) :
            components[k].sourcePath = SourcePath(ComponentsDirs[d], tree[d].files[i].file)

\* the source paths of the files a subdirectory declares: none when it does
\* not exist
DeclaredPaths(d) ==
  IF ~tree[d].exists THEN {}
  ELSE { SourcePath(ComponentsDirs[d], tree[d].files[i].file) :
           i \in { k \in 1..Len(tree[d].files) : IsSourceFile(tree[d].files[k]) } }

\* C21: the scan ends whether or not a configured subdirectory exists, and
\* the catalog holds one descriptor for exactly the regular .ts and .tsx
\* files, index.ts and index.tsx apart, of the subdirectories that exist
C21_ExactlySourceFiles ==
  (pc # "scan") =>
    /\ { components[k].sourcePath : k \in 1..Len(components) }
         = UNION { DeclaredPaths(d) : d \in 1..Len(ComponentsDirs) }
    /\ Len(components)
         = Cardinality(UNION { DeclaredPaths(d) : d \in 1..Len(ComponentsDirs) })

(* ------------------------------------------------------------------ *)
(* The command line: loadConfig and main                               *)
(* ------------------------------------------------------------------ *)

ConfigFiles ==
  << <<"r", "e", "g", "i", "s", "t", "r", "y", ".", "c", "o", "n", "f", "i", "g", ".", "t", "s">>,
     <<"r", "e", "g", "i", "s", "t", "r", "y", ".", "c", "o", "n", "f", "i", "g", ".", "j", "s">>,
     <<"r", "e", "g", "i", "s", "t", "r", "y", ".", "c", "o", "n", "f", "i", "g", ".", "m", "j",
       "s">> >>

\* a configuration file: whether import() of it succeeds, and the baseUrl of
\* the options it exports, empty when it gives none
ConfigFile(loads, base) ==
  [loads |-> loads, baseUrl |-> base]

\* what the working directory holds under one name of ConfigFiles
ConfigFileChoices ==
  { Absent, Present(ConfigFile(FALSE, <<>>)), Present(ConfigFile(TRUE, <<>>)) }
    \cup { Present(ConfigFile(TRUE, b)) : b \in BaseUrls }

\* loadConfig: the options of the first file that exists and can be imported
RECURSIVE loadConfig(_)
loadConfig(files) ==
  IF files = <<>> THEN Absent
  ELSE IF Head(files) # Absent /\ Head(files)[1].loads
    THEN Present([baseUrl |-> Head(files)[1].baseUrl])
  ELSE loadConfig(Tail(files))

HelpFlags ==
  { <<"-", "-", "h", "e", "l", "p">>, <<"-", "h">> }

VersionFlags ==
  { <<"-", "-", "v", "e", "r", "s", "i", "o", "n">>, <<"-", "v">> }

\* a configuration from which the base URL is read although it has none
MissingBaseUrlUnchecked(config) ==
  FALSE

\* !config.baseUrl
MissingBaseUrl(config) ==
  config.baseUrl = <<>>

\* process.exit(code)
Exit(code) ==
  /\ pc' = "exit"
  /\ ret' = <<code>>
  /\ UNCHANGED baseUrl

\* main up to the call of buildRegistry
Main ==
  /\ pc = "main"
  /\ LET config == loadConfig(arg.configFiles)
     IN  IF Range(arg.args) \cap HelpFlags # {} THEN Exit(0)
         ELSE IF Range(arg.args) \cap VersionFlags # {} THEN Exit(0)
         ELSE IF config = Absent THEN Exit(1)
         ELSE IF MissingBaseUrl(config[1]) THEN Exit(1)
         ELSE /\ baseUrl' = config[1].baseUrl
              /\ pc' = "scan"
              /\ UNCHANGED ret
  /\ UNCHANGED <<tree, dirIdx, fileIdx, components, registry, compIdx,
                 collected, stack, call, componentFiles, bundle, disk,
                 docVars, blockVars, rerunVars, arg>>

\* buildRegistry has returned: main ends and the process exits with status 0
MainReturns ==
  /\ pc = "done"
  /\ arg # <<>>
  /\ arg.fn = "main"
  /\ pc' = "exit"
  /\ ret' = <<0>>
  /\ UNCHANGED <<baseUrl, tree, dirIdx, fileIdx, components, registry, compIdx,
                 collected, stack, call, componentFiles, bundle, disk,
                 docVars, blockVars, rerunVars, arg>>

\* the command lines main is started with
CommandLines ==
  { <<>>, << <<"-", "-", "h", "e", "l", "p">> >>, << <<"-", "h">> >>, << <<"-", "-", "v", "e", "r",
                                                                           "s", "i", "o", "n">> >>, << <<"-", "v">> >>,
    << <<"b", "u", "i", "l", "d">> >> }

MainArgs ==
  { [fn |-> "main", args |-> a, configFiles |-> f] :
      a \in CommandLines, f \in [1..Len(ConfigFiles) -> ConfigFileChoices] }

\* the command is started in a project of two documented components
CliInit ==
  /\ baseUrl = <<>>
  /\ \E l \in Listings(DemoEntries) :
       /\ Len(l) = 2
       /\ tree = <<Dir(l), Missing>>
  /\ \E d \in { Dir(l) : l \in { m \in DocListings : Len(m) = 1 } } \cup {Missing} :
       docs = <<d>>
  /\ pc = "main"
  /\ dirIdx = 1
  /\ fileIdx = 1
  /\ components = <<>>
  /\ registry = <<>>
  /\ compIdx = 1
  /\ collected = <<>>
  /\ stack = <<>>
  /\ call = <<>>
  /\ componentFiles = <<>>
  /\ bundle = Absent
  /\ disk = <<>>
  /\ docDirIdx = 1
  /\ docFileIdx = 1
  /\ previewIdx = 1
  /\ blocks = <<>>
  /\ run = 1
  /\ firstDisk = <<>>
  /\ arg \in MainArgs
  /\ ret = <<>>

CliNext ==
  \/ Main
  \/ Next
  \/ MainReturns

CliSpec ==
  CliInit /\ [][CliNext]_vars

\* a command line that asks for the build and a working directory from which
\* loadConfig gets no configuration, or one without baseUrl
FatalConfiguration ==
  /\ arg.fn = "main"
  /\ Range(arg.args) \cap (HelpFlags \cup VersionFlags) = {}
  /\ \/ loadConfig(arg.configFiles) = Absent
     \/ loadConfig(arg.configFiles)[1].baseUrl = <<>>

\* C22: with no configuration file, or a configuration without baseUrl, the
\* build command ends with a non-zero exit status, and no component has been
\* scanned and no output file written
C22_FatalConfigExits ==
  (FatalConfiguration /\ pc # "main") =>
    /\ pc = "exit"
    /\ ret # <<0>>
    /\ components = <<>>
    /\ dirIdx = 1
    /\ fileIdx = 1
    /\ disk = <<>>

\* the first configuration file cannot be imported and the second one has no
\* baseUrl: the command has exited with status 1
C22_Witness ==
  /\ pc = "exit"
  /\ ret = <<1>>
  /\ arg.fn = "main"
  /\ arg.args = <<>>
  /\ arg.configFiles[1] = Present(ConfigFile(FALSE, <<>>))
  /\ arg.configFiles[2] = Present(ConfigFile(TRUE, <<>>))

(* ------------------------------------------------------------------ *)
(* Properties of the order of the steps of buildRegistry               *)
(* ------------------------------------------------------------------ *)

\* the place of a step in buildRegistry
StepRank(step) ==
  CASE step = "scan" -> 1
    [] step = "mdx" -> 2
    [] step = "registry" -> 3
    [] step \in {"component", "collect"} -> 4
    [] step = "bundle" -> 5
    [] step = "write" -> 6
    [] step = "blocks" -> 7
    [] step = "writeBlocks" -> 8
    [] step = "done" -> 9

\* nothing has been generated or written
NothingGenerated ==
  /\ registry = <<>>
  /\ componentFiles = <<>>
  /\ bundle = Absent
  /\ blocks = <<>>
  /\ disk = <<>>

\* the three kinds of manifests of the registry are in the output directory
RegistryWritten ==
  /\ MapHas(disk, RegistryJsonFile)
  /\ MapHas(disk, JsonFileName(RegistryName \o AllSuffix))
  /\ \A k \in 1..Len(components) : MapHas(disk, JsonFileName(components[k].name))

\* C23: buildRegistry goes through its steps in one order: the scan of all
\* subdirectories, then scanMdxFiles over all documentation directories, then
\* the registry index, the per-component and the aggregate manifests and
\* their writing, then the demo blocks and their writing; nothing is
\* generated before the previews are attached, and no demo block before the
\* manifests are written
C23_StepsInOrder ==
  /\ [][StepRank(pc') \in {StepRank(pc), StepRank(pc) + 1}]_vars
  /\ [](StepRank(pc) >= 2 => dirIdx > Len(ComponentsDirs))
  /\ [](StepRank(pc) >= 3 => docDirIdx > Len(DocsDirs))
  /\ [](StepRank(pc) <= 2 => NothingGenerated)
  /\ [](StepRank(pc) <= 6 => blocks = <<>>)
  /\ [](StepRank(pc) >= 7 => RegistryWritten)
  /\ [](StepRank(pc) <= 8 =>
          \A i \in 1..Len(blocks) : ~MapHas(disk, blocks[i][1]))

\* a run has ended with previews attached, manifests written and a demo block
\* written after them
C23_Witness ==
  /\ pc = "done"
  /\ \E k \in 1..Len(components) : components[k].previews # <<>>
  /\ RegistryWritten
  /\ blocks # <<>>
  /\ \A i \in 1..Len(blocks) : MapHas(disk, blocks[i][1])

(* ------------------------------------------------------------------ *)
(* Properties of the generated manifests                               *)
(* ------------------------------------------------------------------ *)

\* the files of every item generated so far for the registry index, the
\* per-component manifests and the aggregate manifest
EmittedFiles ==
  UNION { Range(registry[i].files) : i \in 1..Len(registry) }
    \cup UNION { Range(componentFiles[i][2].files) : i \in 1..Len(componentFiles) }
    \cup (IF bundle = Absent THEN {} ELSE Range(bundle[1].files))

\* the install target the kind of a descriptor fixes
TargetOfKind(component) ==
  IF component.folder = LibDir.name
    THEN <<"l", "i", "b", "/">> \o component.name \o <<".", "t", "s">>
    ELSE <<"c", "o", "m", "p", "o", "n", "e", "n", "t", "s", "/", "u", "i",
           "/">> \o component.name \o <<".", "t", "s", "x">>

\* the type the kind of a descriptor fixes
TypeOfKind(component) ==
  IF component.folder = LibDir.name THEN <<"r", "e", "g", "i", "s", "t", "r", "y", ":", "l", "i",
                                           "b">> ELSE <<"r", "e", "g", "i", "s", "t", "r", "y",
                                                        ":", "u", "i">>

\* C24: every file of the registry index, of a per-component manifest and of
\* the aggregate manifest is the file of a descriptor of the catalog, has the
\* type of that descriptor and the install target of its kind:
\* lib/<name>.ts for lib, components/ui/<name>.tsx for ui
C24_TargetByKind ==
  \A f \in EmittedFiles :
    \E k \in 1..Len(components) :
      /\ components[k].sourcePath = f.path
      /\ f.type = components[k].type
      /\ f.type = TypeOfKind(components[k])
      /\ f.target = TargetOfKind(components[k])

\* a per-component manifest of a ui descriptor embeds the file of a lib
\* descriptor, and the aggregate manifest is generated
C24_Witness ==
  /\ bundle # Absent
  /\ \E i \in 1..Len(componentFiles) :
       /\ componentFiles[i][2].type = <<"r", "e", "g", "i", "s", "t", "r", "y", ":", "u", "i">>
       /\ \E f \in Range(componentFiles[i][2].files) :
            /\ f.type = <<"r", "e", "g", "i", "s", "t", "r", "y", ":", "l", "i", "b">>
            /\ StartsWith(f.target, <<"l", "i", "b", "/">>)

\* the external packages of the descriptors of a set
PackagesOf(all, ks) ==
  UNION { Range(all[k].dependencies) : k \in ks }

\* C25: the dependencies of the per-component manifest of every descriptor r
\* are the external packages of the descriptors reachable from r, each once,
\* and the field is absent when there is none
C25_DependenciesOfClosure ==
  ManifestsDone =>
    \A i \in 1..Len(components) :
      LET packages == PackagesOf(components, ReachedDescs(components, i))
          item == ManifestOf(i)
      IN  IF packages = {}
            THEN item.dependencies = Absent
            ELSE /\ item.dependencies # Absent
                 /\ Range(item.dependencies[1]) = packages
                 /\ NoDup(item.dependencies[1])

(* ------------------------------------------------------------------ *)
(* Properties of the closure as a function of the catalog              *)
(* ------------------------------------------------------------------ *)

\* collectInternalDeps(componentName, allComponents, collected, baseUrl) as
\* a function: the Set it leaves, in insertion order
RECURSIVE collectInternalDeps(_, _, _, _)
RECURSIVE CollectOverRefs(_, _, _, _)
collectInternalDeps(componentName, allComponents, coll, base) ==
  IF componentName \in Range(coll) THEN coll
  ELSE IF FindComponent(allComponents, componentName) = 0 THEN coll
  ELSE CollectOverRefs(
         allComponents[FindComponent(allComponents, componentName)].registryDependencies,
         allComponents, Append(coll, componentName), base)

\* the loop over component.registryDependencies
CollectOverRefs(deps, allComponents, coll, base) ==
  IF deps = <<>> THEN coll
  ELSE CollectOverRefs(Tail(deps), allComponents,
         IF IsInternalRef(Head(deps), base)
           THEN collectInternalDeps(DepNameOf(Head(deps), base), allComponents, coll, base)
           ELSE coll,
         base)

\* the closure of a name, computed from an empty Set
ClosureOf(name) ==
  collectInternalDeps(name, components, <<>>, baseUrl)

\* C26: the closure of every member m of the closure of a root r is a
\* subset of the closure of r, and computing the closure of r again on the
\* same catalog gives the same list in the same order
C26_ClosureIdempotent ==
  ClosureComplete =>
    /\ ClosureOf(components[compIdx].name) = collected
    /\ \A m \in Range(collected) :
         /\ Range(ClosureOf(m)) \subseteq Range(collected)
         /\ collectInternalDeps(m, components, collected, baseUrl) = collected

\* the closure of a root on a cycle: one member has the same closure in
\* another order, another member a closure that is smaller
C26_Witness ==
  /\ ClosureComplete
  /\ \E m, n \in Range(collected) :
       /\ Range(ClosureOf(m)) = Range(collected)
       /\ ClosureOf(m) # collected
       /\ Range(ClosureOf(n)) # Range(collected)

(* ------------------------------------------------------------------ *)
(* Properties of the catalog after it is built                         *)
(* ------------------------------------------------------------------ *)

\* C27: from the return of scanMdxFiles on, no step changes the catalog:
\* generateRegistryJson, generateComponentJsonFiles, generateBundleJson and
\* generateAllDemoBlocks (and the two writes) leave every descriptor and the
\* order of the catalog as they are
C27_CatalogReadOnly ==
  [][StepRank(pc) >= 3 => components' = components]_vars

\* all generators have run over a catalog of two descriptors or more, one of
\* them with a description and previews from its documentation page, and
\* one with a closure larger than itself
C27_Witness ==
  /\ pc = "done"
  /\ Len(components) >= 2
  /\ blocks # <<>>
  /\ \E i \in 1..Len(components) :
       components[i].previews # <<>> /\ components[i].description # <<>>
  /\ \E i \in 1..Len(components) : Len(ManifestOf(i).files) >= 2

(* ------------------------------------------------------------------ *)
(* Properties of the references and files of a demo block              *)
(* ------------------------------------------------------------------ *)

\* the references of descriptor i that do not point into this registry
ExternalRefsOfRoot(i) ==
  { ref \in Range(components[i].registryDependencies) : ~PointsIntoRegistry(ref) }

\* C28: the registryDependencies of a demo manifest hold no entry twice,
\* start with <baseUrl>/<root>.json, hold no other reference into this
\* registry, and the entries after the first are the root's external-catalog
\* references and the catalog names detected in the example code
C28_DemoRegistryDeps ==
  BlockBuilt =>
    LET deps == RegDepsOf(BuiltBlock)
        rest == { deps[j] : j \in 2..Len(deps) }
        example == components[compIdx].previews[previewIdx - 1].code
    IN  /\ NoDup(deps)
        /\ deps # <<>>
        /\ deps[1] = InternalRefTo(components[compIdx].name)
        /\ \A ref \in rest : ~PointsIntoRegistry(ref)
        /\ rest = ExternalRefsOfRoot(compIdx)
                    \cup Range(detectShadcnInCode(example, DefaultShadcnComponents))

\* one of the references of descriptor i denotes exactly descriptor k: the
\* bare name, or <baseUrl>/<name>.json
DenotedBy(i, k) ==
  \E ref \in Range(components[i].registryDependencies) :
    \/ ref = components[k].name
    \/ ref = baseUrl \o Slash \o components[k].name \o DotJson

\* C29: a demo manifest embeds the source of a descriptor other than its
\* root only when one of the root's references denotes exactly that
\* descriptor; a name that is only a part of a reference or of the base URL
\* does not make its descriptor embedded
C29_EmbedsOnlyDenoted ==
  BlockBuilt =>
    \A k \in 1..Len(components) :
      (components[k].name # components[compIdx].name /\ EmbedsSourceOf(BuiltBlock, k))
        => DenotedBy(compIdx, k)

\* C30: every descriptor file a demo manifest embeds, the root's and each
\* additional component's, has the install target of its descriptor: an
\* embedded lib descriptor installs to lib/<name>.ts
C30_EmbeddedTargets ==
  BlockBuilt =>
    LET files == BuiltBlock.files
    IN  /\ files[2].content = ReadFile(components[compIdx].sourcePath)
        /\ files[2].target = components[compIdx].targetPath
        /\ \A k \in 1..Len(components) :
             (components[k].name # components[compIdx].name /\ EmbedsSourceOf(BuiltBlock, k))
               => \E f \in 3..Len(files) :
                    /\ files[f].content = ReadFile(components[k].sourcePath)
                    /\ files[f].target = components[k].targetPath

====
